---------------------------- MODULE ImuProducer -----------------------------
(***************************************************************************)
(* The inertial sensor of samples/fusion_imu and samples/                  *)
(* ros2_to_step_bridge: the thread that calibrates the gyroscope and then  *)
(* samples it, main, the shell, the timer that ends a stream, and the      *)
(* thread of the work queue that runs the node chain.  The samples share   *)
(* imu_data_producer.c; the bridge copies what it has sampled into the     *)
(* measurement, fusion_imu hands out a pointer to the thread's own struct, *)
(* which is filled in step by step with the sensors' buses waited for.     *)
(* The board stands still: the true rotation is 0 and the gyroscope shows  *)
(* Bias, on each axis.                                                     *)
(***************************************************************************)
EXTENDS Integers, Sequences

CONSTANTS
    Meas,           \* the measurements the pool has room for
    Fetches,        \* the readings of a calibration, 200 in the code
    Bias,           \* what the gyroscope shows: a multiple of Fetches^2 keeps
                    \* the means of two calibrations whole
    MaxCalibrations,\* bound: the calibrations asked for on the shell
    MaxStreams,     \* bound: the streams asked for on the shell
    MaxSamples,     \* bound: the samples fetched
    NULL

\* struct imu_data_payload, of which gyro is one axis: what the properties tell
\* apart, with the number of the sample the accelerometer's values and the
\* magnetometer's are of and, history, whether no calibration was running when
\* the rotation was last corrected or left.
Sample == [acc : Nat, gyro : Int, mag : Nat, streamable : BOOLEAN,
           settled : BOOLEAN]

\* A struct that is not being filled in holds one sample.
Whole(s) == s.acc = s.mag

ASSUME ImuAssumption ==
    /\ Fetches \in Nat \ {0}
    /\ Bias \in Int
    /\ {MaxCalibrations, MaxStreams, MaxSamples} \subseteq Nat
    /\ NULL \notin Meas \cup Sample

VARIABLES
    owned, pending, busy,   \* as in MeasurementFlow
    bridge,     \* which of the samples this is
    payload,    \* what each measurement's payload holds, or NULL when it
                \* points to measurement
    measurement,\* struct measurement of the sampling thread
    calibrated, \* imu_calibrated
    offset,     \* gyro_offset_correcton
    pc,         \* where the sampling thread and the shell are
    sum,        \* the readings each of them has fetched, and their sum
    main,
    worker,
    sp_owner,   \* sampler when it has kept the pool's mutex, or NULL
    stream,     \* enable_stream, and whether its timer runs
    result,     \* the sample fusion_node_result, or what is published, is of
    asked,      \* what was asked for on the shell: calibrations and streams
    put,        \* history: the sample each measurement was put with
    overlapped  \* history: two calibrations have run at the same time

flow == <<owned, pending, busy>>
gyro == <<calibrated, offset, sum, overlapped>>
sampled == <<payload, measurement, put>>
vars == <<flow, gyro, sampled, bridge, pc, main, worker, sp_owner, stream,
          result, asked>>

Flow == INSTANCE MeasurementFlow WITH stopped <- FALSE

Calibrators == {"sampler", "shell"}
Calibrating(p) == pc[p] \in {"sum", "set"}
Blank == [acc |-> 0, gyro |-> 0, mag |-> 0, streamable |-> FALSE,
          settled |-> TRUE]

Init ==
    /\ Flow!Init
    /\ bridge \in BOOLEAN
    /\ payload = [m \in Meas |-> NULL]
    /\ measurement = Blank
    /\ calibrated = FALSE
    /\ offset = 0
    /\ pc = [p \in Calibrators |-> IF p = "sampler" THEN "start" ELSE "idle"]
    /\ sum = [p \in Calibrators |-> [n |-> 0, gyro |-> 0]]
    /\ main = "register"
    /\ worker = "idle"
    /\ sp_owner = NULL
    /\ stream = [enabled |-> FALSE, timer |-> FALSE]
    /\ result = Blank
    /\ asked = [calibrations |-> 0, streams |-> 0]
    /\ put = [m \in Meas |-> Blank]
    /\ overlapped = FALSE

-----------------------------------------------------------------------------
(* imu_producer_calibrate, in the sampling thread and on the shell.  The   *)
(* shared flag tells imu_fetch_data whether to correct what it has read,   *)
(* at its end: here it fills a struct that no other thread sees.           *)

Reading == IF calibrated THEN Bias - offset ELSE Bias

\* Mutant of the next definition: the readings stay corrected.
CalibrateCorrected(p) ==
    /\ sum' = [sum EXCEPT ![p] = [n |-> 0, gyro |-> 0]]
    /\ pc' = [pc EXCEPT ![p] = "sum"]
    /\ overlapped' = (overlapped \/ \E r \in Calibrators \ {p} : Calibrating(r))
    /\ UNCHANGED <<calibrated, offset>>

Calibrate(p) ==
    /\ calibrated' = FALSE
    /\ sum' = [sum EXCEPT ![p] = [n |-> 0, gyro |-> 0]]
    /\ pc' = [pc EXCEPT ![p] = "sum"]
    /\ overlapped' = (overlapped \/ \E r \in Calibrators \ {p} : Calibrating(r))
    /\ UNCHANGED offset

SumReading(p) ==
    /\ pc[p] = "sum"
    /\ sum[p].n < Fetches
    /\ sum' = [sum EXCEPT ![p] = [n |-> @.n + 1, gyro |-> @.gyro + Reading]]
    /\ UNCHANGED <<flow, calibrated, offset, overlapped, sampled, bridge, pc,
                   main, worker, sp_owner, stream, result, asked>>

\* Mutant of the next definition: the sum is not divided.
CopySum(p) ==
    /\ pc[p] = "sum"
    /\ sum[p].n = Fetches
    /\ offset' = sum[p].gyro
    /\ pc' = [pc EXCEPT ![p] = "set"]
    /\ UNCHANGED <<flow, calibrated, sum, overlapped, sampled, bridge, main,
                   worker, sp_owner, stream, result, asked>>

CopyMean(p) ==
    /\ pc[p] = "sum"
    /\ sum[p].n = Fetches
    /\ offset' = sum[p].gyro \div Fetches
    /\ pc' = [pc EXCEPT ![p] = "set"]
    /\ UNCHANGED <<flow, calibrated, sum, overlapped, sampled, bridge, main,
                   worker, sp_owner, stream, result, asked>>

\* Mutant of the next definition: the flag is not set again.
SetNothing(p) ==
    /\ pc[p] = "set"
    /\ pc' = [pc EXCEPT ![p] = IF p = "shell" THEN "idle" ELSE "fetch"]
    /\ UNCHANGED <<flow, gyro, sampled, bridge, main, worker, sp_owner,
                   stream, result, asked>>

\* The filter is initialised, and the correction switched on.
SetCalibrated(p) ==
    /\ pc[p] = "set"
    /\ calibrated' = TRUE
    /\ pc' = [pc EXCEPT ![p] = IF p = "shell" THEN "idle" ELSE "fetch"]
    /\ UNCHANGED <<flow, offset, sum, overlapped, sampled, bridge, main,
                   worker, sp_owner, stream, result, asked>>

CalibrateStep(p) == SumReading(p) \/ CopyMean(p) \/ SetCalibrated(p)

-----------------------------------------------------------------------------
(* imu_sample_thread and its callback, on_imu_data_production.             *)

StartSampling ==
    /\ pc["sampler"] = "start"
    /\ Calibrate("sampler")
    /\ UNCHANGED <<flow, sampled, bridge, main, worker, sp_owner, stream,
                   result, asked>>

\* imu_fetch_data overwrites the thread's struct, also while a measurement
\* points to it: one sensor after the other, each after a wait for its bus.
FetchAccel ==
    /\ pc["sampler"] = "fetch"
    /\ measurement.acc < MaxSamples
    /\ measurement' = [measurement EXCEPT !.acc = @ + 1]
    /\ pc' = [pc EXCEPT !["sampler"] = "gyro"]
    /\ UNCHANGED <<flow, gyro, payload, put, bridge, main, worker, sp_owner,
                   stream, result, asked>>

\* The rotation as it is read stands in the struct, and the magnetometer is
\* waited for.
FetchGyro ==
    /\ pc["sampler"] = "gyro"
    /\ measurement' = [measurement EXCEPT !.gyro = Bias]
    /\ pc' = [pc EXCEPT !["sampler"] = "mag"]
    /\ UNCHANGED <<flow, gyro, payload, put, bridge, main, worker, sp_owner,
                   stream, result, asked>>

\* The rotation is corrected where it stands.
FetchMag ==
    /\ pc["sampler"] = "mag"
    /\ measurement' = [measurement EXCEPT
           !.mag = @ + 1,
           !.gyro = IF calibrated THEN @ - offset ELSE @,
           !.settled = \A p \in Calibrators : ~Calibrating(p)]
    /\ pc' = [pc EXCEPT !["sampler"] = "produce"]
    /\ UNCHANGED <<flow, gyro, payload, put, bridge, main, worker, sp_owner,
                   stream, result, asked>>

\* There is no callback yet.
NotProduced ==
    /\ pc["sampler"] = "produce"
    /\ main # "running"
    /\ pc' = [pc EXCEPT !["sampler"] = "fetch"]
    /\ UNCHANGED <<flow, gyro, sampled, bridge, main, worker, sp_owner, stream,
                   result, asked>>

\* Mutant of the next definition: the bridge, too, hands out a pointer.
ProducePointer(m) ==
    /\ pc["sampler"] = "produce"
    /\ main = "running"
    /\ Flow!Allocate(m)
    /\ LET sample == [measurement EXCEPT !.streamable = bridge \/ stream.enabled]
       IN  /\ measurement' = sample
           /\ payload' = [payload EXCEPT ![m] = NULL]
           /\ put' = [put EXCEPT ![m] = sample]
    /\ pc' = [pc EXCEPT !["sampler"] = "put"]
    /\ UNCHANGED <<gyro, bridge, main, worker, sp_owner, stream, result, asked>>

Produce(m) ==
    /\ pc["sampler"] = "produce"
    /\ main = "running"
    /\ Flow!Allocate(m)
    /\ LET sample == [measurement EXCEPT !.streamable = bridge \/ stream.enabled]
       IN  /\ measurement' = sample
           /\ payload' = [payload EXCEPT ![m] = IF bridge THEN sample ELSE NULL]
           /\ put' = [put EXCEPT ![m] = sample]
    /\ pc' = [pc EXCEPT !["sampler"] = "put"]
    /\ UNCHANGED <<gyro, bridge, main, worker, sp_owner, stream, result, asked>>

PutSample(m) ==
    /\ pc["sampler"] = "put"
    /\ Flow!Submit(m)
    /\ pc' = [pc EXCEPT !["sampler"] = "fetch"]
    /\ UNCHANGED <<gyro, sampled, bridge, main, worker, sp_owner, stream,
                   result, asked>>

\* The sample is dropped, and step_sp_alloc has kept its mutex.
DropSample ==
    /\ pc["sampler"] = "produce"
    /\ main = "running"
    /\ Meas \subseteq owned \cup Flow!Waiting \cup {busy}
    /\ sp_owner' = "sampler"
    /\ pc' = [pc EXCEPT !["sampler"] = "fetch"]
    /\ UNCHANGED <<flow, gyro, sampled, bridge, main, worker, stream, result,
                   asked>>

SamplerStep ==
    \/ StartSampling
    \/ CalibrateStep("sampler")
    \/ FetchAccel \/ FetchGyro \/ FetchMag \/ NotProduced
    \/ \E m \in Meas : Produce(m) \/ PutSample(m)
    \/ DropSample

-----------------------------------------------------------------------------
(* main: the chain is registered before imu_producer_start polls for the   *)
(* end of a calibration and installs the callback.                         *)

Register ==
    /\ main = "register"
    /\ main' = "wait"
    /\ UNCHANGED <<flow, gyro, sampled, bridge, pc, worker, sp_owner, stream,
                   result, asked>>

ProducerStart ==
    /\ main = "wait"
    /\ calibrated
    /\ main' = "running"
    /\ UNCHANGED <<flow, gyro, sampled, bridge, pc, worker, sp_owner, stream,
                   result, asked>>

MainStep == Register \/ ProducerStart

-----------------------------------------------------------------------------
(* The shell of fusion_imu, which runs one command at a time, and the      *)
(* timer of its stream command.                                            *)

CmdCalibrate ==
    /\ ~bridge
    /\ pc["shell"] = "idle"
    /\ asked.calibrations < MaxCalibrations
    /\ Calibrate("shell")
    /\ asked' = [asked EXCEPT !.calibrations = @ + 1]
    /\ UNCHANGED <<flow, sampled, bridge, main, worker, sp_owner, stream,
                   result>>

\* stream 0 leaves the timer alone, also one that runs.
CmdStream ==
    /\ ~bridge
    /\ pc["shell"] = "idle"
    /\ asked.streams < MaxStreams
    /\ asked' = [asked EXCEPT !.streams = @ + 1]
    /\ stream' = [stream EXCEPT !.enabled = TRUE]
    /\ \E timed \in BOOLEAN :
          pc' = IF timed THEN [pc EXCEPT !["shell"] = "timer"] ELSE pc
    /\ UNCHANGED <<flow, gyro, sampled, bridge, main, worker, sp_owner, result>>

StartTimer ==
    /\ pc["shell"] = "timer"
    /\ stream' = [stream EXCEPT !.timer = TRUE]
    /\ pc' = [pc EXCEPT !["shell"] = "idle"]
    /\ UNCHANGED <<flow, gyro, sampled, bridge, main, worker, sp_owner, result,
                   asked>>

\* Mutant of the next definition: the timer only stops.
StreamKept ==
    /\ stream.timer
    /\ stream' = [stream EXCEPT !.timer = FALSE]
    /\ UNCHANGED <<flow, gyro, sampled, bridge, pc, main, worker, sp_owner,
                   result, asked>>

StreamEnd ==
    /\ stream.timer
    /\ stream' = [enabled |-> FALSE, timer |-> FALSE]
    /\ UNCHANGED <<flow, gyro, sampled, bridge, pc, main, worker, sp_owner,
                   result, asked>>

-----------------------------------------------------------------------------
(* The thread of the work queue, with the chain that was registered first. *)

PayloadOf(m) == IF payload[m] = NULL THEN measurement ELSE payload[m]

TakeSample ==
    /\ worker = "idle"
    /\ Flow!Begin
    /\ worker' = "process"
    /\ UNCHANGED <<gyro, sampled, bridge, pc, main, sp_owner, stream, result,
                   asked>>

\* fusion_do_process, or sensor_do_process, which publishes.  The work queue's
\* thread has the higher priority (CONFIG_STEP_PROC_MGR_PRIORITY against 1, or
\* -1 in the bridge), so nobody writes while it reads.  What follows,
\* fusion_do_streaming, reads only what is shown.
DoProcess ==
    /\ worker = "process"
    /\ result' = PayloadOf(busy)
    /\ worker' = "finish"
    /\ UNCHANGED <<flow, gyro, sampled, bridge, pc, main, sp_owner, stream,
                   asked>>

FinishSample ==
    /\ worker = "finish"
    /\ sp_owner = NULL
    /\ Flow!End
    /\ worker' = "idle"
    /\ UNCHANGED <<gyro, sampled, bridge, pc, main, sp_owner, stream, result,
                   asked>>

WorkerStep == TakeSample \/ DoProcess \/ FinishSample

ShellStep == CmdCalibrate \/ CalibrateStep("shell") \/ CmdStream \/ StartTimer

Next == SamplerStep \/ MainStep \/ ShellStep \/ StreamEnd \/ WorkerStep

\* The kernel runs every thread that is ready and every timer that was
\* started; a shell command that has begun is finished.
Spec ==
    /\ Init
    /\ [][Next]_vars
    /\ WF_vars(SamplerStep)
    /\ WF_vars(MainStep)
    /\ WF_vars(CalibrateStep("shell") \/ StartTimer)
    /\ WF_vars(StreamEnd)
    /\ WF_vars(WorkerStep)

-----------------------------------------------------------------------------
(* Properties.                                                             *)

\* A calibration measures the bias, also a second one, whose readings would be
\* corrected with the first one's result if it did not switch the correction
\* off; only two at the same time spoil each other, for the first to end
\* switches it on (imu_data_producer.c: "takes up 2 seconds of gyro samples
\* in standstill").
OffsetIsBias ==
    ~overlapped =>
        /\ offset \in {0, Bias}
        /\ \A p \in Calibrators : Calibrating(p) => sum[p].gyro = sum[p].n * Bias

\* What is processed is the board's true rotation, corrected, unless a
\* calibration, during which the correction is off, was running when it was
\* sampled.  In fusion_imu the chain may be given the struct half filled in:
\* then it may see the plain reading, with the bias, but nothing else
\* (imu_data_producer.c: imu_fetch_data; main.c: on_imu_data_production).
ProcessedCorrected ==
    ~overlapped =>
        /\ result.gyro \in {0, Bias}
        /\ result.settled /\ (bridge \/ Whole(result)) => result.gyro = 0

\* What the bridge's chain processes is what the measurement was put with.  In
\* fusion_imu, where the payload is the sampling thread's own struct, it may be
\* a later sample, or a mixture of one and the next, but nothing that is older
\* than what was put (main.c: on_imu_data_production).
ProcessedAsPut ==
    worker = "finish" =>
        IF bridge THEN result = put[busy]
        ELSE /\ put[busy].mag <= result.mag
             /\ result.acc \in {result.mag, result.mag + 1}

\* main gets to install the callback, whatever is calibrated meanwhile: the
\* flag it polls for is true again after every calibration.
StartupEnds == <>(main = "running")

\* A timed stream ends, also one that is asked for while an earlier one runs
\* out (main.c: step_fusion_cmd_stream).
StreamEnds == pc["shell"] = "timer" ~> ~stream.enabled
=============================================================================
