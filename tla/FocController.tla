--------------------------- MODULE FocController ----------------------------
(***************************************************************************)
(* The motor controller of samples/foc_controller: the thread that samples *)
(* the rotor's position, main, which starts the driver and registers the   *)
(* node chain (its init handler aligns the rotor), the shell, and the      *)
(* thread of the work queue that runs the chain.  What the manager does    *)
(* with a measurement is taken from MeasurementFlow, which it implements.  *)
(***************************************************************************)
EXTENDS SpaceVector, Sequences, FiniteSets

CONSTANTS
    Meas,       \* the measurements the pool has room for
    Readings,   \* bound: the positions the encoder shows, in sixths of a turn
    Commands,   \* bound: the commands given on the shell
    MaxStamp,   \* bound: how often the offset and the command are set
    NULL

Command == [q : Int, d : Int]

ASSUME FocAssumption ==
    /\ Readings \subseteq 0 .. 5
    /\ Commands \subseteq Command
    /\ MaxStamp \in Nat
    /\ NULL \notin Meas \cup {"main", "rotor"}

VARIABLES
    owned, pending, busy,   \* as in MeasurementFlow
    sample,     \* the payload of each measurement
    rotor,      \* the sampling thread: where it is, its measurement, its copy
                \* of pole_pairs
    main,       \* where main is
    shell,      \* the command whose second half is not written, or NULL
    worker,     \* where the work queue's thread is
    wq,         \* the work queue: off, flagged as started, started, or broken
    reg_mutex,  \* main while it holds step_pm_reg_access, or NULL
    sp_owner,   \* rotor when it has kept the pool's mutex, or NULL
    driver,     \* the driver's globals and motor_vq, motor_vd
    duty,       \* the duty cycles of the inverter
    gates,      \* the inverter is enabled
    stamp,      \* history: how often an offset or a command has been set
    shown       \* history: the sample whose duty cycles are applied, or NULL

flow == <<owned, pending, busy>>
threads == <<rotor, main, shell, worker>>
kernel == <<wq, reg_mutex, sp_owner>>
motor == <<driver, duty, gates>>
vars == <<flow, sample, threads, kernel, motor, stamp, shown>>

Flow == INSTANCE MeasurementFlow WITH stopped <- FALSE

Zero == [q |-> 0, d |-> 0]
Off == <<0, 0, 0>>

\* struct foc_controller_payload after the allocation: all zero.
Blank == [e |-> 0, cmd |-> Zero, v |-> <<0, 0>>, stamp |-> 0]

\* foc_align_rotor's vector: a tenth of a volt in direction -alpha.
AlignDuty == SetDutyCycle(SvmSet(<<-(ONE \div 10), 0>>))

\* What motor_vq and motor_vd can hold: the shell writes one after the other.
Given == LET all == Commands \cup {Zero}
         IN  [q : {c.q : c \in all}, d : {c.d : c \in all}]

\* The vectors they make at every angle.
Vectors == {InvPark(cmd, e) : cmd \in Given, e \in 0 .. 5}

\* The integers hold what the floats of the code do: a command that is too
\* long is scaled to whole numbers.
ASSUME ExactAssumption == \A v \in Vectors : OverLimit(v) => Exact(v)

\* The duty cycles that foc_svm_set and foc_driver_set_duty_cycle give for them.
Modulated == [v \in Vectors |-> SetDutyCycle(SvmSet(v))]

Init ==
    /\ Flow!Init
    /\ sample = [m \in Meas |-> Blank]
    /\ rotor = [pc |-> "alloc", m |-> NULL, pairs |-> 0]
    /\ main = "start"
    /\ shell = NULL
    /\ worker = "idle"
    /\ wq = "off"
    /\ reg_mutex = NULL
    /\ sp_owner = NULL
    /\ driver = [cb |-> FALSE, pairs |-> 0, offset |-> 0, cmd |-> Zero]
    /\ duty = Off
    /\ gates = FALSE
    /\ stamp = 0
    /\ shown = NULL

-----------------------------------------------------------------------------
(* The encoder: what it shows, or 0xFFFF when the bus fails, which reads as *)
(* the last position before the turn is complete.                          *)

Encoder == Readings \cup {5}

\* (raw - zero_offset) & AS5600_READING_MASK, times the pole pairs.
Electrical(raw, pairs) == (pairs * ((raw - driver.offset) % 6)) % 6

(* The sampling thread, which no other thread preempts: it only gives way  *)
(* while it waits for the bus.                                             *)

\* Allocation, and the copy of pole_pairs before the encoder is read.
StartSample(m) ==
    /\ rotor.pc = "alloc"
    /\ Flow!Allocate(m)
    /\ sample' = [sample EXCEPT ![m] = Blank]
    /\ rotor' = [pc |-> "read", m |-> m, pairs |-> driver.pairs]
    /\ UNCHANGED <<main, shell, worker, kernel, motor, stamp, shown>>

\* step_sp_alloc gives NULL, with its mutex held, and the sample is written
\* through it: a fault, which stops every thread (see Next).
AllocFails ==
    /\ rotor.pc = "alloc"
    /\ Meas \subseteq owned \cup Flow!Waiting \cup {busy}
    /\ sp_owner' = "rotor"
    /\ rotor' = [rotor EXCEPT !.pc = "fault"]
    /\ UNCHANGED <<flow, sample, main, shell, worker, wq, reg_mutex, motor,
                   stamp, shown>>

\* The rest of a turn: position, callback and step_pm_put, which starts the
\* work queue when no other thread has begun to, and whose result is ignored.
PutSample ==
    /\ rotor.pc = "read"
    /\ \E raw \in Encoder :
          sample' = [sample EXCEPT ![rotor.m] =
              [Blank EXCEPT !.e = Electrical(raw, rotor.pairs),
                            !.cmd = IF driver.cb THEN driver.cmd ELSE Zero,
                            !.stamp = stamp]]
    /\ wq' = IF wq = "off" THEN "started" ELSE wq
    /\ IF wq = "flagged" THEN UNCHANGED flow ELSE Flow!Submit(rotor.m)
    /\ rotor' = [rotor EXCEPT !.pc = "alloc", !.m = NULL]
    /\ UNCHANGED <<main, shell, worker, reg_mutex, sp_owner, motor, stamp,
                   shown>>

-----------------------------------------------------------------------------
(* main.                                                                   *)

\* foc_driver_initialize: the callback is there before the rest.
SetCallback ==
    /\ main = "start"
    /\ driver' = [driver EXCEPT !.cb = TRUE]
    /\ main' = "driver"
    /\ UNCHANGED <<flow, sample, rotor, shell, worker, kernel, duty, gates,
                   stamp, shown>>

InitializeDriver ==
    /\ main = "driver"
    /\ driver' = [driver EXCEPT !.pairs = 7, !.offset = 0]
    /\ duty' = SetDutyCycle(Off)
    /\ gates' = TRUE
    /\ main' = "check"
    /\ UNCHANGED <<flow, sample, rotor, shell, worker, kernel, stamp, shown>>

\* step_pm_register: the flag of the work queue is read, set, and only then is
\* the queue initialised.  One that runs already is initialised again.
CheckQueue ==
    /\ main = "check"
    /\ main' = IF wq = "off" THEN "flag" ELSE "register"
    /\ UNCHANGED <<flow, sample, rotor, shell, worker, kernel, motor, stamp,
                   shown>>

FlagQueue ==
    /\ main = "flag"
    /\ wq' = IF wq = "off" THEN "flagged" ELSE "broken"
    /\ main' = "queue"
    /\ UNCHANGED <<flow, sample, rotor, shell, worker, reg_mutex, sp_owner,
                   motor, stamp, shown>>

StartQueue ==
    /\ main = "queue"
    /\ wq' = IF wq = "flagged" THEN "started" ELSE wq
    /\ main' = "register"
    /\ UNCHANGED <<flow, sample, rotor, shell, worker, reg_mutex, sp_owner,
                   motor, stamp, shown>>

\* Mutant of the next definition: the handlers run with the mutex released.
RegisterUnlocked ==
    /\ main = "register"
    /\ reg_mutex = NULL
    /\ duty' = AlignDuty
    /\ main' = "settle"
    /\ UNCHANGED <<flow, sample, rotor, shell, worker, kernel, driver, gates,
                   stamp, shown>>

\* The record is linked in and the init handler applies its vector, all with
\* the mutex held.
Register ==
    /\ main = "register"
    /\ reg_mutex = NULL
    /\ reg_mutex' = "main"
    /\ duty' = AlignDuty
    /\ main' = "settle"
    /\ UNCHANGED <<flow, sample, rotor, shell, worker, wq, sp_owner, driver,
                   gates, stamp, shown>>

\* After 500 ms: foc_driver_set_encoder_offset, and the mutex is released.
Aligned ==
    /\ main = "settle"
    /\ \E raw \in Encoder : driver' = [driver EXCEPT !.offset = raw]
    /\ stamp' = stamp + 1
    /\ reg_mutex' = NULL
    /\ main' = "done"
    /\ UNCHANGED <<flow, sample, rotor, shell, worker, wq, sp_owner, duty,
                   gates, shown>>

-----------------------------------------------------------------------------
(* The shell.                                                              *)

\* step_foc set: motor_vq first, then motor_vd.
SetVq(c) ==
    /\ shell = NULL
    /\ stamp < MaxStamp
    /\ driver' = [driver EXCEPT !.cmd.q = c.q]
    /\ shell' = c
    /\ UNCHANGED <<flow, sample, rotor, main, worker, kernel, duty, gates,
                   stamp, shown>>

SetVd ==
    /\ shell # NULL
    /\ driver' = [driver EXCEPT !.cmd.d = shell.d]
    /\ stamp' = stamp + 1
    /\ shell' = NULL
    /\ UNCHANGED <<flow, sample, rotor, main, worker, kernel, duty, gates,
                   shown>>

\* step_foc align: the offset alone, at any time.
ShellAlign ==
    /\ shell = NULL
    /\ stamp < MaxStamp
    /\ \E raw \in Encoder : driver' = [driver EXCEPT !.offset = raw]
    /\ stamp' = stamp + 1
    /\ UNCHANGED <<flow, sample, rotor, main, shell, worker, kernel, duty,
                   gates, shown>>

-----------------------------------------------------------------------------
(* The thread of the work queue: step_pm_process with the one node chain.  *)

TakeSample ==
    /\ worker = "idle"
    /\ wq = "started"
    /\ Flow!Begin
    /\ worker' = "lock"
    /\ UNCHANGED <<sample, rotor, main, shell, kernel, motor, stamp, shown>>

\* The registry is read with the mutex held, and the chain is run without it.
Match ==
    /\ worker = "lock"
    /\ wq = "started"
    /\ reg_mutex = NULL
    /\ worker' = IF main \in {"settle", "done"} THEN "process" ELSE "finish"
    /\ UNCHANGED <<flow, sample, rotor, main, shell, kernel, motor, stamp,
                   shown>>

\* foc_do_process.
DoProcess ==
    /\ worker = "process"
    /\ wq = "started"
    /\ sample' = [sample EXCEPT ![busy].v =
                      InvPark(sample[busy].cmd, sample[busy].e)]
    /\ worker' = "modulate"
    /\ UNCHANGED <<flow, rotor, main, shell, kernel, motor, stamp, shown>>

\* foc_do_space_vector_modulation.
DoModulation ==
    /\ worker = "modulate"
    /\ wq = "started"
    /\ duty' = Modulated[sample[busy].v]
    /\ shown' = sample[busy]
    /\ worker' = "finish"
    /\ UNCHANGED <<flow, sample, rotor, main, shell, kernel, driver, gates,
                   stamp>>

\* The mutex is taken again for the rest of the list, and the measurement is
\* given back.
FinishSample ==
    /\ worker = "finish"
    /\ wq = "started"
    /\ reg_mutex = NULL
    /\ sp_owner = NULL
    /\ Flow!End
    /\ worker' = "idle"
    /\ UNCHANGED <<sample, rotor, main, shell, kernel, motor, stamp, shown>>

RotorStep == (\E m \in Meas : StartSample(m)) \/ AllocFails \/ PutSample
MainStep == SetCallback \/ InitializeDriver \/ CheckQueue \/ FlagQueue
                \/ StartQueue \/ Register \/ Aligned
ShellStep == (\E c \in Commands : SetVq(c)) \/ SetVd \/ ShellAlign
WorkerStep == TakeSample \/ Match \/ DoProcess \/ DoModulation \/ FinishSample

\* The threads, until a write through NULL takes the system.
Next ==
    /\ rotor.pc # "fault"
    /\ RotorStep \/ MainStep \/ ShellStep \/ WorkerStep

Spec == Init /\ [][Next]_vars

-----------------------------------------------------------------------------
(* Properties.                                                             *)

\* Nothing drives the motor before the rotor is aligned, and nothing disturbs
\* the vector that aligns it for as long as the rotor settles, although
\* samples are taken and queued all the while (foc_nodes.c: "give a delay to
\* the rotor align mechanically").
VoltageOwned ==
    /\ main \in {"start", "driver", "check", "flag", "queue", "register"} =>
          duty = Off
    /\ main = "settle" => duty = AlignDuty /\ gates

\* A sixth of a turn, in the three components of a vector.
Turned(w) == <<-w[3], -w[1], -w[2]>>
TurnedBy(w, e) ==
    LET t == Turned(w)
        u == Turned(t)
    IN  <<w, t, u, Turned(u), Turned(Turned(u)), Turned(Turned(Turned(u)))>>[e + 1]

\* A command at angle 0.
AtRest(cmd) == <<2 * cmd.d, -(3 * cmd.q) - cmd.d, 3 * cmd.q - cmd.d>>

Parallel(v, w) ==
    /\ v[1] * w[2] = v[2] * w[1] /\ v[2] * w[3] = v[3] * w[2]
    /\ v[1] * w[1] >= 0 /\ v[2] * w[2] >= 0

\* The voltages between the phases for duty cycles d are the commanded vector,
\* turned by the angle; a command longer than the inverter can give keeps its
\* direction, at full length, and no duty cycle is cut off.
Follows(d, cmd, e) ==
    LET w == TurnedBy(AtRest(cmd), e)
        volts == <<d[1] - d[2], d[2] - d[3], d[3] - d[1]>>
        square(v) == v[1] * v[1] + v[2] * v[2] + v[3] * v[3]
    IN  IF 8 * square(w) > 9 * ONE * ONE
        THEN Parallel(volts, w) /\ 2 * square(volts) = 9 * ONE * ONE
        ELSE volts = <<2 * w[1], 2 * w[2], 2 * w[3]>>

\* The field follows the rotor: the inverter's voltages are the command of the
\* sample that is applied, turned by its angle (foc_nodes.c, foc_svm.c).
FieldFollowsRotor == shown # NULL => Follows(duty, shown.cmd, shown.e)

\* What is applied only gets newer: once a sample that was taken with a new
\* offset or command drives the motor, none that was taken before does.  Up
\* to a pool full of older ones may come first.
NewerApplied ==
    [][shown # NULL => shown'.stamp >= shown.stamp]_shown
=============================================================================
