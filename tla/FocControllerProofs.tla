------------------------ MODULE FocControllerProofs -------------------------
(***************************************************************************)
(* The motor of the FoC sample, for every number of measurements and every *)
(* set of commands and encoder positions: the aligning voltage is not      *)
(* disturbed, what is applied only gets newer, and the field follows the   *)
(* rotor.                                                                  *)
(***************************************************************************)
EXTENDS FocController, SequenceTheorems, TLAPS

-----------------------------------------------------------------------------
(* Who drives the motor.                                                   *)

BeforeSettle == {"start", "driver", "check", "flag", "queue", "register"}

\* The registry's mutex is main's for as long as the rotor settles, the chain
\* runs only after that, and before it nothing has been applied.
Drive ==
    /\ main \in BeforeSettle \cup {"settle", "done"}
    /\ main = "settle" <=> reg_mutex = "main"
    /\ worker \in {"idle", "lock", "process", "modulate", "finish"}
    /\ worker \in {"process", "modulate"} => main = "done"
    /\ main \in BeforeSettle => duty = Off
    /\ main \notin {"start", "driver"} => gates
    /\ main = "settle" => duty = AlignDuty
    /\ main # "done" => shown = NULL

\* A triple is what its places say.
LEMMA TripleIs ==
  ASSUME NEW f, DOMAIN f = 1 .. 3, f = [i \in 1 .. 3 |-> f[i]]
  PROVE  f = <<f[1], f[2], f[3]>>
<1>1. 1 .. 3 = {1, 2, 3}
  OBVIOUS
<1> QED  BY <1>1

LEMMA DutyIs ==
  ASSUME NEW d
  PROVE  SetDutyCycle(d) = <<Saturated(d[1]), Saturated(d[2]), Saturated(d[3])>>
<1> DEFINE f == SetDutyCycle(d)
<1>1. DOMAIN f = 1 .. 3 /\ f = [i \in 1 .. 3 |-> f[i]]
  BY DEF SetDutyCycle
<1>2. f[1] = Saturated(d[1]) /\ f[2] = Saturated(d[2]) /\ f[3] = Saturated(d[3])
  BY DEF SetDutyCycle
<1> HIDE DEF f
<1>3. f = <<f[1], f[2], f[3]>>
  BY <1>1, TripleIs
<1> QED  BY <1>2, <1>3 DEF f

LEMMA OffIsOff == SetDutyCycle(Off) = Off
<1>1. Saturated(0) = 0
  BY OneAssumption DEF Saturated
<1>2. Off[1] = 0 /\ Off[2] = 0 /\ Off[3] = 0
  BY DEF Off
<1>3. SetDutyCycle(Off) = <<Saturated(Off[1]), Saturated(Off[2]), Saturated(Off[3])>>
  BY DutyIs
<1> QED  BY <1>1, <1>2, <1>3 DEF Off

LEMMA DriveInit == Init => Drive
BY FocAssumption DEF Init, Drive, BeforeSettle

LEMMA DriveNext == Drive /\ [Next]_vars => Drive'
<1> SUFFICES ASSUME Drive, [Next]_vars PROVE Drive'
  OBVIOUS
<1> USE FocAssumption DEF Drive, BeforeSettle
<1>1. CASE RotorStep
  BY <1>1 DEF RotorStep, StartSample, AllocFails, PutSample, kernel, motor
<1>2. CASE ShellStep
  BY <1>2 DEF ShellStep, SetVq, SetVd, ShellAlign, kernel
<1>3. CASE SetCallback \/ InitializeDriver
  BY <1>3, OffIsOff DEF SetCallback, InitializeDriver, kernel
<1>4. CASE CheckQueue \/ FlagQueue \/ StartQueue
  BY <1>4 DEF CheckQueue, FlagQueue, StartQueue, kernel, motor
<1>5. CASE Register \/ Aligned
  BY <1>5 DEF Register, Aligned
<1>6. CASE TakeSample \/ Match \/ FinishSample
  BY <1>6 DEF TakeSample, Match, FinishSample, kernel, motor
<1>7. CASE DoProcess \/ DoModulation
  BY <1>7 DEF DoProcess, DoModulation, kernel, motor
<1>8. CASE UNCHANGED vars
  BY <1>8 DEF vars, threads, kernel, motor
<1> QED  BY <1>1, <1>2, <1>3, <1>4, <1>5, <1>6, <1>7, <1>8
         DEF Next, MainStep, WorkerStep

\* For every number of measurements and whatever the shell does: the motor
\* gets no voltage before the rotor is aligned, and exactly the aligning one
\* while it settles (foc_nodes.c: foc_align_rotor; proc_mgr.c:
\* step_pm_register, which runs the init handler with the registry locked).
THEOREM VoltageUndisturbed == Spec => []VoltageOwned
<1>1. Drive => VoltageOwned
  BY DEF Drive, BeforeSettle, VoltageOwned
<1> QED  BY <1>1, DriveInit, DriveNext, PTL DEF Spec

-----------------------------------------------------------------------------
(* The samples: which values they carry, and who has which measurement.    *)

Sample == [e : 0 .. 5, cmd : Given, v : Int \X Int, stamp : Nat]

FocType ==
    /\ owned \subseteq Meas
    /\ pending \in Seq(Meas)
    /\ busy \in Meas \cup {NULL}
    /\ worker = "idle" <=> busy = NULL
    /\ sample \in [Meas -> Sample]
    /\ rotor \in [pc : {"alloc", "read", "fault"}, m : Meas \cup {NULL}, pairs : {0, 7}]
    /\ shell \in Commands \cup {NULL}
    /\ driver \in [cb : BOOLEAN, pairs : {0, 7}, offset : 0 .. 5, cmd : Given]
    /\ stamp \in Nat
    /\ shown \in Sample \cup {NULL}

LEMMA GivenIsCommand ==
  ASSUME NEW cmd \in Given
  PROVE  cmd \in Command
BY FocAssumption DEF Given, Command, Zero

\* A command that is overwritten by half is one of those.
LEMMA GivenHalves ==
  ASSUME NEW cmd \in Given, NEW c \in Commands
  PROVE  [cmd EXCEPT !.q = c.q] \in Given /\ [cmd EXCEPT !.d = c.d] \in Given
BY DEF Given

LEMMA VectorType ==
  ASSUME NEW cmd \in Given, NEW e \in 0 .. 5
  PROVE  InvPark(cmd, e) \in Int \X Int
<1>1. C(e) \in Int /\ S(e) \in Int
  BY DEF C, S
<1>2. cmd.q \in Int /\ cmd.d \in Int
  BY GivenIsCommand DEF Command
<1> QED  BY <1>1, <1>2 DEF InvPark

LEMMA BlankType == Blank \in Sample
<1>1. Zero \in Given
  BY DEF Given, Zero
<1> QED  BY <1>1 DEF Blank, Sample

LEMMA EncoderType == Encoder \subseteq 0 .. 5
BY FocAssumption DEF Encoder

LEMMA ElectricalType ==
  ASSUME NEW raw \in 0 .. 5, NEW pairs \in {0, 7}, driver.offset \in 0 .. 5
  PROVE  Electrical(raw, pairs) \in 0 .. 5
<1>1. ASSUME NEW n \in Int PROVE n % 6 \in 0 .. 5
  OBVIOUS
<1>2. (raw - driver.offset) % 6 \in 0 .. 5
  BY <1>1
<1>3. pairs * ((raw - driver.offset) % 6) \in Int
  BY <1>2
<1> QED  BY <1>1, <1>3 DEF Electrical

LEMMA FocTypeInit == Init => FocType
<1> SUFFICES ASSUME Init PROVE FocType
  OBVIOUS
<1>1. Zero \in Given
  BY DEF Given, Zero
<1>2. sample \in [Meas -> Sample]
  BY BlankType DEF Init
<1> QED  BY <1>1, <1>2 DEF Init, Flow!Init, FocType

LEMMA FocTypeNext == FocType /\ Drive /\ [Next]_vars => FocType'
<1> SUFFICES ASSUME FocType, Drive, [Next]_vars PROVE FocType'
  OBVIOUS
<1> USE FocAssumption DEF threads
<1>1. ASSUME NEW m \in Meas, StartSample(m) PROVE FocType'
  BY <1>1, BlankType DEF FocType, StartSample, Flow!Allocate, motor, kernel
<1>2. CASE AllocFails
  BY <1>2 DEF FocType, AllocFails, flow, motor
<1>3. CASE PutSample
  <2>1. PICK raw \in Encoder : sample' = [sample EXCEPT ![rotor.m] =
              [Blank EXCEPT !.e = Electrical(raw, rotor.pairs),
                            !.cmd = IF driver.cb THEN driver.cmd ELSE Zero,
                            !.stamp = stamp]]
    BY <1>3 DEF PutSample
  <2>2. Electrical(raw, rotor.pairs) \in 0 .. 5
    BY EncoderType, ElectricalType DEF FocType
  <2>3. Zero \in Given
    BY DEF Given, Zero
  <2>4. sample' \in [Meas -> Sample]
    BY <2>1, <2>2, <2>3, BlankType DEF FocType, Sample
  <2>5. owned' \subseteq Meas /\ pending' \in Seq(Meas) /\ busy' = busy
    <3>1. CASE UNCHANGED flow
      BY <3>1 DEF FocType, flow
    <3>2. CASE Flow!Submit(rotor.m)
      <4>1. rotor.m \in Meas
        BY <3>2 DEF FocType, Flow!Submit
      <4> QED  BY <3>2, <4>1, AppendProperties DEF FocType, Flow!Submit
    <3> QED  BY <1>3, <3>1, <3>2 DEF PutSample
  <2> QED  BY <1>3, <2>4, <2>5 DEF FocType, PutSample, motor
<1>4. CASE SetCallback
  BY <1>4 DEF FocType, SetCallback, flow
<1>4a. CASE InitializeDriver
  <2>1. driver' = [cb |-> driver.cb, pairs |-> 7, offset |-> 0, cmd |-> driver.cmd]
    BY <1>4a DEF FocType, InitializeDriver
  <2>2. driver' \in [cb : BOOLEAN, pairs : {0, 7}, offset : 0 .. 5, cmd : Given]
    BY <2>1 DEF FocType
  <2> QED  BY <1>4a, <2>2 DEF FocType, InitializeDriver, flow
<1>5. CASE CheckQueue \/ FlagQueue \/ StartQueue \/ Register
  BY <1>5 DEF FocType, CheckQueue, FlagQueue, StartQueue, Register, flow, motor
<1>6. CASE Aligned \/ ShellAlign
  BY <1>6, EncoderType DEF FocType, Aligned, ShellAlign, flow
<1>7. ASSUME NEW c \in Commands, SetVq(c) PROVE FocType'
  <2>1. [driver.cmd EXCEPT !.q = c.q] \in Given
    BY GivenHalves DEF FocType
  <2> QED  BY <1>7, <2>1 DEF FocType, SetVq, flow
<1>8. CASE SetVd
  <2>1. shell \in Commands
    BY <1>8 DEF FocType, SetVd
  <2>2. [driver.cmd EXCEPT !.d = shell.d] \in Given
    BY <2>1, GivenHalves DEF FocType
  <2> QED  BY <1>8, <2>2 DEF FocType, SetVd, flow
<1>9. CASE TakeSample
  BY <1>9 DEF FocType, TakeSample, Flow!Begin, motor
<1>10. CASE Match
  BY <1>10 DEF FocType, Match, flow, motor
<1>11. CASE DoProcess
  <2>1. busy \in Meas
    BY <1>11 DEF FocType, DoProcess
  <2>2. InvPark(sample[busy].cmd, sample[busy].e) \in Int \X Int
    BY <2>1, VectorType DEF FocType, Sample
  <2>3. sample' \in [Meas -> Sample]
    BY <1>11, <2>1, <2>2 DEF FocType, DoProcess, Sample
  <2> QED  BY <1>11, <2>3 DEF FocType, DoProcess, flow, motor
<1>12. CASE DoModulation
  BY <1>12 DEF FocType, DoModulation, flow
<1>13. CASE FinishSample
  BY <1>13 DEF FocType, FinishSample, Flow!End, motor
<1>14. CASE UNCHANGED vars
  BY <1>14 DEF FocType, vars, flow, threads, motor
<1> QED  BY <1>1, <1>2, <1>3, <1>4, <1>4a, <1>5, <1>6, <1>7, <1>8, <1>9, <1>10,
            <1>11, <1>12, <1>13, <1>14
         DEF Next, RotorStep, MainStep, ShellStep, WorkerStep

-----------------------------------------------------------------------------
(* What is applied only gets newer.                                        *)

\* A measurement is in one place, once, and the sampling thread writes one
\* that is its own.
Apart ==
    /\ busy \notin owned
    /\ \A i \in 1 .. Len(pending) : pending[i] \notin owned /\ pending[i] # busy
    /\ \A i, j \in 1 .. Len(pending) : pending[i] = pending[j] => i = j
    /\ rotor.pc = "read" => rotor.m \in owned

\* From what is shown over what is processed to what waits, oldest first, no
\* sample is older than the one before.
Sorted ==
    /\ \A i \in 1 .. Len(pending) :
           /\ sample[pending[i]].stamp <= stamp
           /\ busy # NULL => sample[busy].stamp <= sample[pending[i]].stamp
           /\ shown # NULL => shown.stamp <= sample[pending[i]].stamp
           /\ \A j \in i .. Len(pending) :
                  sample[pending[i]].stamp <= sample[pending[j]].stamp
    /\ busy # NULL =>
           /\ sample[busy].stamp <= stamp
           /\ shown # NULL => shown.stamp <= sample[busy].stamp
    /\ shown # NULL => shown.stamp <= stamp

Line == FocType /\ Drive /\ Apart /\ Sorted

LEMMA LineInit == Init => Line
<1>1. Init => FocType /\ Drive
  BY FocTypeInit, DriveInit
<1> QED  BY <1>1, FocAssumption DEF Init, Flow!Init, Line, Apart, Sorted

LEMMA ApartNext == FocType /\ Apart /\ [Next]_vars => Apart'
<1> SUFFICES ASSUME FocType, Apart, [Next]_vars PROVE Apart'
  OBVIOUS
<1>1. ASSUME NEW m \in Meas, StartSample(m) PROVE Apart'
  <2>1. /\ m \notin owned /\ m # busy
        /\ \A i \in 1 .. Len(pending) : pending[i] # m
    BY <1>1 DEF StartSample, Flow!Allocate, Flow!Waiting
  <2>2. rotor'.m = m /\ owned' = owned \cup {m} /\ UNCHANGED <<pending, busy>>
    BY <1>1 DEF StartSample, Flow!Allocate
  <2> QED  BY <2>1, <2>2 DEF Apart
<1>2. CASE PutSample /\ UNCHANGED flow
  BY <1>2 DEF FocType, Apart, PutSample, flow
<1>3. CASE PutSample /\ Flow!Submit(rotor.m)
  <2>1. rotor.m \in owned /\ owned' = owned \ {rotor.m} /\ busy' = busy
          /\ pending' = Append(pending, rotor.m) /\ rotor'.pc # "read"
    BY <1>3 DEF FocType, PutSample, Flow!Submit
  <2>2. rotor.m \in Meas
    BY <2>1 DEF FocType
  <2>3. /\ Len(pending') = Len(pending) + 1
        /\ pending'[Len(pending) + 1] = rotor.m
        /\ \A i \in 1 .. Len(pending) : pending'[i] = pending[i]
    BY <2>1, <2>2, AppendProperties DEF FocType
  <2>4. ASSUME NEW i \in 1 .. Len(pending')
        PROVE  i \in 1 .. Len(pending) \/ i = Len(pending) + 1
    BY <2>3 DEF FocType
  <2> QED  BY <2>1, <2>3, <2>4 DEF Apart
<1>4. CASE TakeSample
  <2>1. /\ pending # <<>> /\ busy' = Head(pending) /\ pending' = Tail(pending)
        /\ UNCHANGED <<owned, rotor>>
    BY <1>4 DEF TakeSample, Flow!Begin
  <2>2. /\ Len(pending) > 0 /\ Len(pending') = Len(pending) - 1
        /\ busy' = pending[1]
        /\ \A i \in 1 .. Len(pending') : pending'[i] = pending[i + 1]
    BY <2>1, HeadTailProperties DEF FocType
  <2> QED  BY <2>1, <2>2 DEF Apart, FocType
<1>5. CASE FinishSample
  BY <1>5, FocAssumption DEF FocType, Apart, FinishSample, Flow!End
<1>6. CASE AllocFails
  BY <1>6 DEF FocType, Apart, AllocFails, flow
<1>7. CASE MainStep \/ ShellStep \/ Match \/ DoProcess \/ DoModulation \/ UNCHANGED vars
  <2>1. UNCHANGED <<flow, rotor>>
    BY <1>7 DEF MainStep, SetCallback, InitializeDriver, CheckQueue, FlagQueue,
                StartQueue, Register, Aligned, ShellStep, SetVq, SetVd,
                ShellAlign, Match, DoProcess, DoModulation, vars, threads
  <2> QED  BY <2>1 DEF Apart, flow
<1>8. CASE PutSample
  BY <1>8, <1>2, <1>3 DEF PutSample
<1> QED  BY <1>1, <1>4, <1>5, <1>6, <1>7, <1>8 DEF Next, RotorStep, WorkerStep

\* A step that leaves the queue alone, and of the samples in it the stamps.
LEMMA SortedKept ==
  ASSUME FocType, Sorted, UNCHANGED flow, stamp' \in Nat, stamp' >= stamp,
         UNCHANGED shown, \A m \in Meas : sample'[m].stamp = sample[m].stamp
  PROVE  Sorted'
<1>1. \A i \in 1 .. Len(pending) : pending[i] \in Meas
  BY DEF FocType
<1>2. \A m \in Meas : sample[m].stamp \in Nat
  BY DEF FocType, Sample
<1>3. shown # NULL => shown.stamp \in Nat
  BY DEF FocType, Sample
<1> QED  BY <1>1, <1>2, <1>3 DEF FocType, Sorted, flow

LEMMA SortedNext == Line /\ [Next]_vars => Sorted'
<1> SUFFICES ASSUME Line, [Next]_vars PROVE Sorted'
  OBVIOUS
<1> USE DEF Line
<1>1. \A i \in 1 .. Len(pending) : pending[i] \in Meas
  BY DEF FocType
<1>2. \A m \in Meas : sample[m].stamp \in Nat
  BY DEF FocType, Sample
<1>3. shown # NULL => shown.stamp \in Nat
  BY DEF FocType, Sample
<1>4. stamp \in Nat
  BY DEF FocType
<1>5. ASSUME NEW m \in Meas, StartSample(m) PROVE Sorted'
  <2>1. /\ m # busy
        /\ \A i \in 1 .. Len(pending) : pending[i] # m
    BY <1>5 DEF StartSample, Flow!Allocate, Flow!Waiting
  <2>2. \A k \in Meas : k # m => sample'[k] = sample[k]
    BY <1>5 DEF StartSample, FocType
  <2>3. UNCHANGED <<pending, busy, stamp, shown>>
    BY <1>5 DEF StartSample, Flow!Allocate
  <2> QED  BY <1>1, <2>1, <2>2, <2>3 DEF FocType, Sorted
<1>6. CASE PutSample
  <2>1. rotor.m \in owned /\ rotor.m \in Meas
    BY <1>6 DEF PutSample, Apart, FocType
  <2>2. sample'[rotor.m].stamp = stamp
    BY <1>6, <2>1 DEF PutSample, FocType, Blank
  <2>3. \A k \in Meas : k # rotor.m => sample'[k] = sample[k]
    BY <1>6 DEF PutSample, FocType
  <2>4. UNCHANGED <<busy, stamp, shown>>
    BY <1>6 DEF PutSample, Flow!Submit, flow
  <2>5. busy # NULL => sample'[busy] = sample[busy]
    BY <2>1, <2>3 DEF Apart, FocType
  <2>6. \A i \in 1 .. Len(pending) : sample'[pending[i]] = sample[pending[i]]
    BY <1>1, <2>1, <2>3 DEF Apart
  <2>7. CASE UNCHANGED flow
    BY <2>4, <2>5, <2>6, <2>7 DEF Sorted, flow
  <2>8. CASE Flow!Submit(rotor.m)
    <3>1. pending' = Append(pending, rotor.m)
      BY <2>8 DEF Flow!Submit
    <3>2. /\ Len(pending') = Len(pending) + 1
          /\ pending'[Len(pending) + 1] = rotor.m
          /\ \A i \in 1 .. Len(pending) : pending'[i] = pending[i]
      BY <2>1, <3>1, AppendProperties DEF FocType
    <3>3. Len(pending) \in Nat
      BY DEF FocType
    <3>4. ASSUME NEW i \in 1 .. Len(pending')
          PROVE  i \in 1 .. Len(pending) \/ i = Len(pending) + 1
      BY <3>2, <3>3
    <3>5. \A i \in 1 .. Len(pending) : sample'[pending'[i]].stamp = sample[pending[i]].stamp
      BY <3>2, <2>6
    <3>6. sample'[pending'[Len(pending) + 1]].stamp = stamp
      BY <3>2, <2>2
    <3> QED  BY <1>1, <1>2, <1>3, <1>4, <2>4, <2>5, <3>2, <3>3, <3>4, <3>5, <3>6
             DEF Sorted
  <2> QED  BY <1>6, <2>7, <2>8 DEF PutSample
<1>7. CASE TakeSample
  <2>1. /\ pending # <<>> /\ busy' = Head(pending) /\ pending' = Tail(pending)
        /\ UNCHANGED <<sample, stamp, shown>>
    BY <1>7 DEF TakeSample, Flow!Begin
  <2>2. /\ Len(pending) > 0 /\ Len(pending') = Len(pending) - 1
        /\ busy' = pending[1]
        /\ \A i \in 1 .. Len(pending') : pending'[i] = pending[i + 1]
    BY <2>1, HeadTailProperties DEF FocType
  <2>3. Len(pending) \in Nat
    BY DEF FocType
  <2>4. \A i \in 1 .. Len(pending') : i + 1 \in 1 .. Len(pending)
    BY <2>2, <2>3
  <2> QED  BY <1>1, <1>2, <1>3, <1>4, <2>1, <2>2, <2>3, <2>4 DEF Sorted
<1>8. CASE FinishSample
  BY <1>8 DEF FinishSample, Flow!End, Sorted
<1>9. CASE DoModulation
  <2>1. busy # NULL /\ shown' = sample[busy] /\ UNCHANGED <<flow, sample, stamp>>
    BY <1>9 DEF DoModulation, FocType
  <2>2. busy \in Meas
    BY <2>1 DEF FocType
  <2> QED  BY <1>1, <1>2, <1>4, <2>1, <2>2 DEF Sorted, flow
<1>10. CASE DoProcess
  <2>1. \A m \in Meas : sample'[m].stamp = sample[m].stamp
    BY <1>10 DEF DoProcess, FocType, Sample
  <2> QED  BY <1>10, <2>1, SortedKept DEF DoProcess, FocType
<1>11. CASE AllocFails \/ MainStep \/ ShellStep \/ Match \/ UNCHANGED vars
  <2>1. UNCHANGED <<flow, sample, shown>> /\ stamp' \in Nat /\ stamp' >= stamp
    BY <1>4, <1>11
       DEF AllocFails, MainStep, SetCallback, InitializeDriver, CheckQueue,
           FlagQueue, StartQueue, Register, Aligned, ShellStep, SetVq, SetVd,
           ShellAlign, Match, vars
  <2> QED  BY <2>1, SortedKept
<1> QED  BY <1>5, <1>6, <1>7, <1>8, <1>9, <1>10, <1>11
         DEF Next, RotorStep, WorkerStep

LEMMA LineNext == Line /\ [Next]_vars => Line'
BY FocTypeNext, DriveNext, ApartNext, SortedNext DEF Line

\* For every number of measurements, readings and commands: a sample taken
\* with a new offset or command is never followed in the inverter by one that
\* was taken before (foc_driver.c: foc_driver_rotor_position_sample_thread;
\* proc_mgr.c: step_pm_put and its work queue, first in, first out).
THEOREM NewestShown == Spec => NewerApplied
<1>1. ASSUME Line, [Next]_vars
      PROVE  [shown # NULL => shown'.stamp >= shown.stamp]_shown
  <2>1. CASE DoModulation
    <3>1. busy # NULL /\ shown' = sample[busy]
      BY <1>1, <2>1 DEF DoModulation, Line, FocType
    <3>2. sample[busy].stamp \in Nat /\ (shown # NULL => shown.stamp \in Nat)
      BY <1>1, <3>1 DEF Line, FocType, Sample
    <3> QED  BY <1>1, <3>1, <3>2 DEF Line, Sorted
  <2>2. CASE ~DoModulation
    <3>1. UNCHANGED shown
      BY <1>1, <2>2
         DEF Next, RotorStep, StartSample, AllocFails, PutSample, MainStep, SetCallback,
             InitializeDriver, CheckQueue, FlagQueue, StartQueue, Register,
             Aligned, ShellStep, SetVq, SetVd, ShellAlign, WorkerStep,
             TakeSample, Match, DoProcess, FinishSample, vars
    <3> QED  BY <3>1
  <2> QED  BY <2>1, <2>2
<1> QED  BY <1>1, LineInit, LineNext, PTL DEF Spec, NewerApplied

-----------------------------------------------------------------------------
(* The arithmetic of the space vector.                                     *)

LEMMA Halved ==
  ASSUME NEW n \in Int, NEW k \in Int, n = 2 * k
  PROVE  n % 2 = 0 /\ n \div 2 = k
OBVIOUS

\* Two numbers with an even sum, under Clarke's transform.
LEMMA ClarkeIs ==
  ASSUME NEW x \in Int, NEW y \in Int, (x + y) % 2 = 0
  PROVE  /\ Clarke(<<x, y>>) = <<x, -((x + y) \div 2) - y, 2 * y - (x + y) \div 2>>
         /\ x + y = 2 * ((x + y) \div 2) /\ (x + y) \div 2 \in Int
<1> DEFINE k == (x + y) \div 2
<1>1. k \in Int /\ x + y = 2 * k
  OBVIOUS
<1>2. x = 2 * k - y
  BY <1>1
<1> HIDE DEF k
<1>3. (-x - 3 * y) \div 2 = -k - y
  BY <1>1, <1>2
<1>4. (-x + 3 * y) \div 2 = 2 * y - k
  BY <1>1, <1>2
<1>5. Clarke(<<x, y>>) = <<x, -k - y, 2 * y - k>>
  BY <1>3, <1>4 DEF Clarke
<1> QED  BY <1>1, <1>5 DEF k

\* The command, turned by the angle: InvPark and Clarke together.
LEMMA ParkIs ==
  ASSUME NEW cmd \in Command, NEW e \in 0 .. 5
  PROVE  LET v == InvPark(cmd, e)
         IN  /\ v[1] \in Int /\ v[2] \in Int /\ v = <<v[1], v[2]>>
             /\ (v[1] + v[2]) % 2 = 0
             /\ Clarke(v) = TurnedBy(AtRest(cmd), e)
<1> DEFINE v == InvPark(cmd, e)
           q == cmd.q
           d == cmd.d
<1>0. q \in Int /\ d \in Int
  BY DEF Command
<1>1. AtRest(cmd) = <<2 * d, -(3 * q) - d, 3 * q - d>>
  BY DEF AtRest
<1>2. CASE e = 0
  <2>1. C(e) = 2 /\ S(e) = 0
    BY <1>2 DEF C, S
  <2>2. v = <<2 * d, 2 * q>>
    BY <1>0, <2>1 DEF InvPark
  <2>3. (2 * d) + (2 * q) = 2 * (d + q)
    BY <1>0
  <2>4. ((2 * d) + (2 * q)) % 2 = 0 /\ ((2 * d) + (2 * q)) \div 2 = d + q
    <3> DEFINE n == (2 * d) + (2 * q)
               h == d + q
    <3>1. n \in Int /\ h \in Int /\ n = 2 * h
      BY <1>0, <2>3
    <3> HIDE DEF n, h
    <3>2. n % 2 = 0 /\ n \div 2 = h
      BY <3>1, Halved
    <3> QED  BY <3>2 DEF n, h
  <2>5. Clarke(v) = <<2 * d, -(d + q) - (2 * q), 2 * (2 * q) - (d + q)>>
    <3> DEFINE x == 2 * d
               y == 2 * q
    <3>1. x \in Int /\ y \in Int /\ (x + y) % 2 = 0 /\ (x + y) \div 2 = d + q
      BY <1>0, <2>4
    <3>2. v = <<x, y>>
      BY <2>2
    <3> HIDE DEF x, y
    <3>3. Clarke(v) = <<x, -((x + y) \div 2) - y, 2 * y - (x + y) \div 2>>
      BY <3>1, <3>2, ClarkeIs
    <3>4. Clarke(v) = <<x, -(d + q) - y, 2 * y - (d + q)>>
      BY <3>1, <3>3
    <3> QED  BY <3>4 DEF x, y
  <2>6. TurnedBy(AtRest(cmd), e) = <<2 * d, -(3 * q) - d, 3 * q - d>>
    BY <1>1, <1>2 DEF TurnedBy, Turned
  <2>7. /\ 2 * d = 2 * d
        /\ -(3 * q) - d = -(d + q) - (2 * q)
        /\ 3 * q - d = 2 * (2 * q) - (d + q)
    BY <1>0
  <2> QED  BY <1>0, <2>2, <2>4, <2>5, <2>6, <2>7
<1>3. CASE e = 1
  <2>1. C(e) = 1 /\ S(e) = 1
    BY <1>3 DEF C, S
  <2>2. v = <<d - 3 * q, d + q>>
    BY <1>0, <2>1 DEF InvPark
  <2>3. (d - 3 * q) + (d + q) = 2 * (d - q)
    BY <1>0
  <2>4. ((d - 3 * q) + (d + q)) % 2 = 0 /\ ((d - 3 * q) + (d + q)) \div 2 = d - q
    BY <1>0, <2>3
  <2>5. Clarke(v) = <<d - 3 * q, -(d - q) - (d + q), 2 * (d + q) - (d - q)>>
    BY <1>0, <2>2, <2>4, ClarkeIs
  <2>6. TurnedBy(AtRest(cmd), e) = <<-(3 * q - d), -(2 * d), -(-(3 * q) - d)>>
    BY <1>1, <1>3 DEF TurnedBy, Turned
  <2>7. /\ -(3 * q - d) = d - 3 * q
        /\ -(2 * d) = -(d - q) - (d + q)
        /\ -(-(3 * q) - d) = 2 * (d + q) - (d - q)
    BY <1>0
  <2> QED  BY <1>0, <2>2, <2>4, <2>5, <2>6, <2>7
<1>4. CASE e = 2
  <2>1. C(e) = -1 /\ S(e) = 1
    BY <1>4 DEF C, S
  <2>2. v = <<-d - 3 * q, d - q>>
    BY <1>0, <2>1 DEF InvPark
  <2>3. (-d - 3 * q) + (d - q) = 2 * (-(2 * q))
    BY <1>0
  <2>4. ((-d - 3 * q) + (d - q)) % 2 = 0 /\ ((-d - 3 * q) + (d - q)) \div 2 = -(2 * q)
    BY <1>0, <2>3
  <2>5. Clarke(v) = <<-d - 3 * q, -(-(2 * q)) - (d - q), 2 * (d - q) - (-(2 * q))>>
    BY <1>0, <2>2, <2>4, ClarkeIs
  <2>6. TurnedBy(AtRest(cmd), e) = <<-(-(-(3 * q) - d)), -(-(3 * q - d)), -(-(2 * d))>>
    BY <1>1, <1>4 DEF TurnedBy, Turned
  <2>7. /\ -(-(-(3 * q) - d)) = -d - 3 * q
        /\ -(-(3 * q - d)) = -(-(2 * q)) - (d - q)
        /\ -(-(2 * d)) = 2 * (d - q) - (-(2 * q))
    BY <1>0
  <2> QED  BY <1>0, <2>2, <2>4, <2>5, <2>6, <2>7
<1>5. CASE e = 3
  <2>1. C(e) = -2 /\ S(e) = 0
    BY <1>5 DEF C, S
  <2>2. v = <<-(2 * d), -(2 * q)>>
    BY <1>0, <2>1 DEF InvPark
  <2>3. (-(2 * d)) + (-(2 * q)) = 2 * (-d - q)
    BY <1>0
  <2>4. ((-(2 * d)) + (-(2 * q))) % 2 = 0 /\ ((-(2 * d)) + (-(2 * q))) \div 2 = -d - q
    <3> DEFINE n == (-(2 * d)) + (-(2 * q))
               h == -d - q
    <3>1. n \in Int /\ h \in Int /\ n = 2 * h
      BY <1>0, <2>3
    <3> HIDE DEF n, h
    <3>2. n % 2 = 0 /\ n \div 2 = h
      BY <3>1, Halved
    <3> QED  BY <3>2 DEF n, h
  <2>5. Clarke(v) = <<-(2 * d), -(-d - q) - (-(2 * q)), 2 * (-(2 * q)) - (-d - q)>>
    <3> DEFINE x == -(2 * d)
               y == -(2 * q)
    <3>1. x \in Int /\ y \in Int /\ (x + y) % 2 = 0 /\ (x + y) \div 2 = -d - q
      BY <1>0, <2>4
    <3>2. v = <<x, y>>
      BY <2>2
    <3> HIDE DEF x, y
    <3>3. Clarke(v) = <<x, -((x + y) \div 2) - y, 2 * y - (x + y) \div 2>>
      BY <3>1, <3>2, ClarkeIs
    <3>4. Clarke(v) = <<x, -(-d - q) - y, 2 * y - (-d - q)>>
      BY <3>1, <3>3
    <3> QED  BY <3>4 DEF x, y
  <2>6. TurnedBy(AtRest(cmd), e) = <<-(-(-(2 * d))), -(-(-(-(3 * q) - d))), -(-(-(3 * q - d)))>>
    BY <1>1, <1>5 DEF TurnedBy, Turned
  <2>7. /\ -(-(-(2 * d))) = -(2 * d)
        /\ -(-(-(-(3 * q) - d))) = -(-d - q) - (-(2 * q))
        /\ -(-(-(3 * q - d))) = 2 * (-(2 * q)) - (-d - q)
    BY <1>0
  <2> QED  BY <1>0, <2>2, <2>4, <2>5, <2>6, <2>7
<1>6. CASE e = 4
  <2>1. C(e) = -1 /\ S(e) = -1
    BY <1>6 DEF C, S
  <2>2. v = <<-d + 3 * q, -d - q>>
    BY <1>0, <2>1 DEF InvPark
  <2>3. (-d + 3 * q) + (-d - q) = 2 * (-d + q)
    BY <1>0
  <2>4. ((-d + 3 * q) + (-d - q)) % 2 = 0 /\ ((-d + 3 * q) + (-d - q)) \div 2 = -d + q
    BY <1>0, <2>3
  <2>5. Clarke(v) = <<-d + 3 * q, -(-d + q) - (-d - q), 2 * (-d - q) - (-d + q)>>
    BY <1>0, <2>2, <2>4, ClarkeIs
  <2>6. TurnedBy(AtRest(cmd), e) = <<-(-(-(-(3 * q - d)))), -(-(-(-(2 * d)))), -(-(-(-(-(3 * q) - d))))>>
    BY <1>1, <1>6 DEF TurnedBy, Turned
  <2>7. /\ -(-(-(-(3 * q - d)))) = -d + 3 * q
        /\ -(-(-(-(2 * d)))) = -(-d + q) - (-d - q)
        /\ -(-(-(-(-(3 * q) - d)))) = 2 * (-d - q) - (-d + q)
    BY <1>0
  <2> QED  BY <1>0, <2>2, <2>4, <2>5, <2>6, <2>7
<1>7. CASE e = 5
  <2>1. C(e) = 1 /\ S(e) = -1
    BY <1>7 DEF C, S
  <2>2. v = <<d + 3 * q, -d + q>>
    BY <1>0, <2>1 DEF InvPark
  <2>3. (d + 3 * q) + (-d + q) = 2 * (2 * q)
    BY <1>0
  <2>4. ((d + 3 * q) + (-d + q)) % 2 = 0 /\ ((d + 3 * q) + (-d + q)) \div 2 = 2 * q
    BY <1>0, <2>3
  <2>5. Clarke(v) = <<d + 3 * q, -(2 * q) - (-d + q), 2 * (-d + q) - (2 * q)>>
    BY <1>0, <2>2, <2>4, ClarkeIs
  <2>6. TurnedBy(AtRest(cmd), e) = <<-(-(-(-(-(-(3 * q) - d))))), -(-(-(-(-(3 * q - d))))), -(-(-(-(-(2 * d)))))>>
    BY <1>1, <1>7 DEF TurnedBy, Turned
  <2>7. /\ -(-(-(-(-(-(3 * q) - d))))) = d + 3 * q
        /\ -(-(-(-(-(3 * q - d))))) = -(2 * q) - (-d + q)
        /\ -(-(-(-(-(2 * d))))) = 2 * (-d + q) - (2 * q)
    BY <1>0
  <2> QED  BY <1>0, <2>2, <2>4, <2>5, <2>6, <2>7
<1> QED  BY <1>2, <1>3, <1>4, <1>5, <1>6, <1>7

LEMMA SquareBound ==
  ASSUME NEW n \in Int, NEW k \in Nat, n * n <= k * k
  PROVE  -k <= n /\ n <= k
<1>1. ASSUME n > k PROVE FALSE
  <2>1. n * n >= (k + 1) * n
    BY <1>1
  <2>2. (k + 1) * n >= (k + 1) * (k + 1)
    BY <1>1
  <2> QED  BY <2>1, <2>2
<1>2. ASSUME n < -k PROVE FALSE
  <2> DEFINE m == -n
  <2>1. m \in Nat /\ m >= k + 1 /\ m * m = n * n
    BY <1>2
  <2> HIDE DEF m
  <2>2. m * m >= (k + 1) * m
    BY <2>1
  <2>3. (k + 1) * m >= (k + 1) * (k + 1)
    BY <2>1
  <2> QED  BY <2>1, <2>2, <2>3
<1> QED  BY <1>1, <1>2

LEMMA SaturatedKeeps ==
  ASSUME NEW x \in 0 .. 2 * ONE
  PROVE  Saturated(x) = x
BY OneAssumption DEF Saturated

\* Three voltages that add up to nothing and that the period has room for come
\* back, doubled, between the phases, and no duty cycle is cut off.
LEMMA DutiesFit ==
  ASSUME NEW a \in Int, NEW b \in Int, NEW c \in Int, a + b + c = 0,
         a \in -ONE .. ONE, b \in -ONE .. ONE, c \in -ONE .. ONE
  PROVE  LET d == SetDutyCycle(Duties(a, b, c))
         IN  /\ d[1] - d[2] = 2 * a
             /\ d[2] - d[3] = 2 * b
             /\ d[3] - d[1] = 2 * c
<1> DEFINE d == Duties(a, b, c)
<1>1. /\ d[1] \in 0 .. 2 * ONE /\ d[2] \in 0 .. 2 * ONE /\ d[3] \in 0 .. 2 * ONE
      /\ d[1] - d[2] = 2 * a /\ d[2] - d[3] = 2 * b /\ d[3] - d[1] = 2 * c
  <2>1. CASE c < 0 /\ a >= 0 /\ b >= 0
    <3>1. Sector(a, b, c) = 1 /\ Times(a, b, c) = <<a, b>>
      BY <2>1 DEF Sector, Times
    <3> QED  BY <2>1, <3>1, OneAssumption DEF Duties
  <2>2. CASE c < 0 /\ a < 0
    <3>1. Sector(a, b, c) = 2 /\ Times(a, b, c) = <<-c, -a>>
      BY <2>2 DEF Sector, Times
    <3> DEFINE x == -c
               y == -a
    <3>2. x \in Int /\ y \in Int /\ x + y = b /\ x = -c
      OBVIOUS
    <3> HIDE DEF x, y
    <3>3. Times(a, b, c)[1] = x /\ Times(a, b, c)[2] = y
      BY <3>1 DEF x, y
    <3>4. d = <<2 * x + (ONE - b), 2 * b + (ONE - b), ONE - b>>
      BY <3>2, <3>1, <3>3, OneAssumption DEF Duties
    <3> QED  BY <2>2, <3>2, <3>4, OneAssumption
  <2>3. CASE c >= 0 /\ a < 0 /\ b > 0
    <3>1. Sector(a, b, c) = 3 /\ Times(a, b, c) = <<b, c>>
      BY <2>3 DEF Sector, Times
    <3> QED  BY <2>3, <3>1, OneAssumption DEF Duties
  <2>4. CASE c >= 0 /\ a < 0 /\ b <= 0
    <3>1. Sector(a, b, c) = 4 /\ Times(a, b, c) = <<-a, -b>>
      BY <2>4 DEF Sector, Times
    <3>2. d = <<ONE - c, 2 * (-a) + (ONE - c), 2 * c + (ONE - c)>>
      BY <2>4, <3>1, OneAssumption DEF Duties
    <3> QED  BY <2>4, <3>2, OneAssumption
  <2>5. CASE c >= 0 /\ a >= 0
    <3>1. Sector(a, b, c) = 5 /\ Times(a, b, c) = <<c, a>>
      BY <2>5 DEF Sector, Times
    <3> QED  BY <2>5, <3>1, OneAssumption DEF Duties
  <2>6. CASE c < 0 /\ a >= 0 /\ b < 0
    <3>1. Sector(a, b, c) = 6 /\ Times(a, b, c) = <<-b, -c>>
      BY <2>6 DEF Sector, Times
    <3> QED  BY <2>6, <3>1, OneAssumption DEF Duties
  <2> QED  BY <2>1, <2>2, <2>3, <2>4, <2>5, <2>6
<1> HIDE DEF d
<1>2. SetDutyCycle(d) = <<d[1], d[2], d[3]>>
  <2>1. SetDutyCycle(d) = <<Saturated(d[1]), Saturated(d[2]), Saturated(d[3])>>
    BY DutyIs
  <2> QED  BY <1>1, <2>1, SaturatedKeeps
<1> QED  BY <1>1, <1>2 DEF d

\* A vector within the limit that the transform keeps whole: what becomes of
\* it, and its length.
LEMMA SvmIs ==
  ASSUME NEW x \in Int, NEW y \in Int, (x + y) % 2 = 0,
         4 * (x * x + 3 * (y * y)) <= 3 * (ONE * ONE)
  PROVE  LET w == Clarke(<<x, y>>)
             d == SetDutyCycle(Duties(w[1], w[2], w[3]))
         IN  /\ w[1] \in Int /\ w[2] \in Int /\ w[3] \in Int
             /\ w = <<w[1], w[2], w[3]>>
             /\ 2 * (w[1] * w[1] + w[2] * w[2] + w[3] * w[3])
                    = 3 * (x * x + 3 * (y * y))
             /\ d[1] - d[2] = 2 * w[1]
             /\ d[2] - d[3] = 2 * w[2]
             /\ d[3] - d[1] = 2 * w[3]
<1> DEFINE w == Clarke(<<x, y>>)
           k == (x + y) \div 2
           a == w[1]
           b == w[2]
           c == w[3]
<1>1. w = <<x, -k - y, 2 * y - k>> /\ x + y = 2 * k /\ k \in Int
  BY ClarkeIs
<1>2. a = x /\ b = -k - y /\ c = 2 * y - k
  BY <1>1
<1>3. a \in Int /\ b \in Int /\ c \in Int /\ a + b + c = 0 /\ w = <<a, b, c>>
  BY <1>1, <1>2
<1> HIDE DEF w, k
<1>4. x * x + 3 * (y * y) = 4 * (k * k) - 4 * (k * y) + 4 * (y * y)
  <2>1. x = 2 * k - y
    BY <1>1
  <2> QED  BY <1>1, <2>1
<1>5. /\ a * a = 4 * (k * k) - 4 * (k * y) + y * y
      /\ b * b = k * k + 2 * (k * y) + y * y
      /\ c * c = 4 * (y * y) - 4 * (k * y) + k * k
  <2>1. a = 2 * k - y
    BY <1>1, <1>2
  <2>2. a * a = 4 * (k * k) - 4 * (k * y) + y * y
    BY <1>1, <2>1
  <2>3. b * b = k * k + 2 * (k * y) + y * y
    BY <1>1, <1>2
  <2>4. c * c = 4 * (y * y) - 4 * (k * y) + k * k
    BY <1>1, <1>2
  <2> QED  BY <2>2, <2>3, <2>4
<1> DEFINE kk == k * k
           ky == k * y
           yy == y * y
           L == x * x + 3 * (y * y)
<1>6. kk \in Int /\ ky \in Int /\ yy \in Int /\ kk >= 0 /\ yy >= 0
  BY <1>1
<1>7. kk - 2 * ky + yy >= 0
  <2>1. (k - y) * (k - y) >= 0
    BY <1>1
  <2>2. (k - y) * (k - y) = kk - 2 * ky + yy
    BY <1>1
  <2> QED  BY <2>1, <2>2
<1>8. /\ L = 4 * kk - 4 * ky + 4 * yy
      /\ a * a = 4 * kk - 4 * ky + yy
      /\ b * b = kk + 2 * ky + yy
      /\ c * c = 4 * yy - 4 * ky + kk
  BY <1>4, <1>5
<1>9. 4 * L <= 3 * (ONE * ONE) /\ ONE * ONE \in Nat
  BY OneAssumption
<1> HIDE DEF kk, ky, yy, L, a, b, c
<1>10. 2 * (a * a + b * b + c * c) = 3 * L
  BY <1>6, <1>8
<1>11. a * a <= ONE * ONE /\ b * b <= ONE * ONE /\ c * c <= ONE * ONE
  BY <1>6, <1>7, <1>8, <1>9
<1>12. a \in -ONE .. ONE /\ b \in -ONE .. ONE /\ c \in -ONE .. ONE
  BY <1>3, <1>11, SquareBound, OneAssumption
<1> QED  BY <1>3, <1>10, <1>12, DutiesFit DEF L, w, a, b, c

LEMMA Cancel ==
  ASSUME NEW p \in Nat \ {0}, NEW m \in Int, NEW n \in Int, p * m = p * n
  PROVE  m = n
<1>1. p * (m - n) = 0
  OBVIOUS
<1>2. m - n > 0 => p * (m - n) > 0
  OBVIOUS
<1>3. m - n < 0 => p * (m - n) < 0
  OBVIOUS
<1> QED  BY <1>1, <1>2, <1>3

LEMMA DividesExactly ==
  ASSUME NEW p \in Int, NEW q \in Nat \ {0}, p % q = 0
  PROVE  p \div q \in Int /\ p = q * (p \div q)
OBVIOUS

\* The scaling of a long vector: to the limit, in its direction.
LEMMA LimitedIs ==
  ASSUME NEW x \in Int, NEW y \in Int, (x + y) % 2 = 0,
         OverLimit(<<x, y>>) => Exact(<<x, y>>)
  PROVE  \E r \in Int, s \in Int :
             /\ Limited(<<x, y>>) = <<r, s>>
             /\ (r + s) % 2 = 0
             /\ 4 * (r * r + 3 * (s * s)) <= 3 * (ONE * ONE)
             /\ ~OverLimit(<<x, y>>) => r = x /\ s = y
             /\ OverLimit(<<x, y>>) =>
                    /\ 4 * (r * r + 3 * (s * s)) = 3 * (ONE * ONE)
                    /\ \E h \in 1 .. ONE : 4 * h * r = ONE * x /\ 4 * h * s = ONE * y
<1> DEFINE v == <<x, y>>
<1>1. OverLimit(v) <=> 4 * (x * x + 3 * (y * y)) > 3 * (ONE * ONE)
  BY OneAssumption DEF OverLimit
<1>2. CASE ~OverLimit(v)
  <2>1. Limited(v) = <<x, y>>
    BY <1>2 DEF Limited
  <2> HIDE DEF v
  <2>2. 4 * (x * x + 3 * (y * y)) <= 3 * (ONE * ONE)
    BY <1>1, <1>2, OneAssumption
  <2> QED  BY <1>2, <2>1, <2>2 DEF v
<1>3. CASE OverLimit(v)
  <2>1. PICK h \in 1 .. ONE :
            /\ IsLength(h, v)
            /\ (v[1] * ONE) % (4 * h) = 0 /\ (v[2] * ONE) % (4 * h) = 0
            /\ (Scaled(v[1], h) + Scaled(v[2], h)) % 2 = 0
    BY <1>3 DEF Exact
  <2> DEFINE r == Scaled(x, h)
             s == Scaled(y, h)
  <2>2. Length(v) \in 1 .. ONE /\ IsLength(Length(v), v)
    BY <2>1 DEF Length
  <2>3. Length(v) = h
    <3> DEFINE l == Length(v)
    <3>1. l \in Nat /\ h \in Nat /\ 12 * l * l = 12 * h * h
      BY <2>1, <2>2, OneAssumption DEF IsLength
    <3> HIDE DEF l
    <3>2. l * l = h * h
      BY <3>1
    <3>3. l <= h /\ h <= l
      BY <3>1, <3>2, SquareBound
    <3> QED  BY <3>1, <3>3 DEF l
  <2>4. Limited(v) = <<r, s>>
    BY <1>3, <2>3 DEF Limited
  <2>5. 4 * h \in Nat \ {0} /\ x * ONE \in Int /\ y * ONE \in Int
    BY OneAssumption
  <2>6. r \in Int /\ x * ONE = (4 * h) * r
    BY <2>1, <2>5, DividesExactly DEF Scaled
  <2>7. s \in Int /\ y * ONE = (4 * h) * s
    BY <2>1, <2>5, DividesExactly DEF Scaled
  <2>8. (r + s) % 2 = 0
    BY <2>1
  <2>9. 12 * (h * h) = x * x + 3 * (y * y)
    BY <2>1, OneAssumption DEF IsLength
  <2> HIDE DEF r, s, v
  <2>10. 4 * (r * r + 3 * (s * s)) = 3 * (ONE * ONE)
    <3> DEFINE hh == h * h
               oo == ONE * ONE
               rr == r * r
               ss == s * s
               xx == x * x
               yy == y * y
    <3>1. hh \in Nat \ {0} /\ oo \in Int /\ rr \in Int /\ ss \in Int
            /\ xx \in Int /\ yy \in Int
      BY <2>6, <2>7, OneAssumption
    <3>2. xx * oo = 16 * (hh * rr)
      <4>1. xx * oo = (x * ONE) * (x * ONE)
        BY OneAssumption
      <4>2. ((4 * h) * r) * ((4 * h) * r) = 16 * (hh * rr)
        BY <2>6, OneAssumption
      <4> QED  BY <2>6, <4>1, <4>2
    <3>3. yy * oo = 16 * (hh * ss)
      <4>1. yy * oo = (y * ONE) * (y * ONE)
        BY OneAssumption
      <4>2. ((4 * h) * s) * ((4 * h) * s) = 16 * (hh * ss)
        BY <2>7, OneAssumption
      <4> QED  BY <2>7, <4>1, <4>2
    <3>4. 12 * hh = xx + 3 * yy
      BY <2>9
    <3> HIDE DEF hh, oo, rr, ss, xx, yy
    <3>5. (12 * hh) * oo = 16 * (hh * rr) + 3 * (16 * (hh * ss))
      <4>1. (12 * hh) * oo = xx * oo + 3 * (yy * oo)
        BY <3>1, <3>4
      <4> QED  BY <3>1, <3>2, <3>3, <4>1
    <3>6. hh * (3 * oo) = hh * (4 * (rr + 3 * ss))
      BY <3>1, <3>5
    <3>7. 3 * oo = 4 * (rr + 3 * ss)
      BY <3>1, <3>6, Cancel
    <3> QED  BY <3>7 DEF rr, ss, oo
  <2>11. 4 * h * r = ONE * x /\ 4 * h * s = ONE * y
    BY <2>6, <2>7, OneAssumption
  <2>12. 4 * (r * r + 3 * (s * s)) <= 3 * (ONE * ONE)
    BY <2>6, <2>7, <2>10, OneAssumption
  <2> QED  BY <1>3, <2>4, <2>6, <2>7, <2>8, <2>10, <2>11, <2>12 DEF v
<1> QED  BY <1>2, <1>3

LEMMA CrossIs ==
  ASSUME NEW k \in Nat \ {0}, NEW o \in Nat \ {0},
         NEW a \in Int, NEW b \in Int, NEW p \in Int, NEW q \in Int,
         k * a = o * p, k * b = o * q
  PROVE  a * q = b * p /\ a * p >= 0
<1>1. k * (a * q) = (o * p) * q
  <2>1. k * (a * q) = (k * a) * q
    OBVIOUS
  <2> QED  BY <2>1
<1>2. k * (b * p) = (o * q) * p
  <2>1. k * (b * p) = (k * b) * p
    OBVIOUS
  <2> QED  BY <2>1
<1>3. (o * p) * q = (o * q) * p
  OBVIOUS
<1>4. a * q = b * p
  BY <1>1, <1>2, <1>3, Cancel
<1>5. k * (a * p) = o * (p * p)
  <2>1. k * (a * p) = (k * a) * p
    OBVIOUS
  <2>2. (o * p) * p = o * (p * p)
    OBVIOUS
  <2> QED  BY <2>1, <2>2
<1>6. o * (p * p) >= 0
  <2>1. p * p >= 0
    OBVIOUS
  <2> QED  BY <2>1
<1>7. a * p < 0 => k * (a * p) < 0
  OBVIOUS
<1> QED  BY <1>4, <1>5, <1>6, <1>7

\* What the inverter gives for a command and an angle.
LEMMA FieldTurns ==
  ASSUME NEW cmd \in Given, NEW e \in 0 .. 5
  PROVE  Follows(SetDutyCycle(SvmSet(InvPark(cmd, e))), cmd, e)
<1> DEFINE v == InvPark(cmd, e)
           x == v[1]
           y == v[2]
           w == TurnedBy(AtRest(cmd), e)
           u == Limited(v)
           t == Clarke(u)
           d == SetDutyCycle(Duties(t[1], t[2], t[3]))
           long == OverLimit(v)
           oo == ONE * ONE
<1>1. v \in Vectors
  BY DEF Vectors
<1>2. x \in Int /\ y \in Int /\ v = <<x, y>> /\ (x + y) % 2 = 0 /\ Clarke(v) = w
  BY GivenIsCommand, ParkIs
<1>3. SvmSet(v) = Duties(t[1], t[2], t[3])
  BY DEF SvmSet
<1>4. long => Exact(v)
  BY <1>1, ExactAssumption
<1>5. long <=> 4 * (x * x + 3 * (y * y)) > 3 * oo
  BY <1>2, OneAssumption DEF OverLimit
<1> HIDE DEF v, w
<1>6. \E r \in Int, s \in Int :
          /\ Limited(<<x, y>>) = <<r, s>>
          /\ (r + s) % 2 = 0
          /\ 4 * (r * r + 3 * (s * s)) <= 3 * (ONE * ONE)
          /\ ~OverLimit(<<x, y>>) => r = x /\ s = y
          /\ OverLimit(<<x, y>>) =>
                 /\ 4 * (r * r + 3 * (s * s)) = 3 * (ONE * ONE)
                 /\ \E h \in 1 .. ONE : 4 * h * r = ONE * x /\ 4 * h * s = ONE * y
  <2>1. OverLimit(<<x, y>>) => Exact(<<x, y>>)
    BY <1>2, <1>4
  <2> HIDE DEF x, y
  <2> QED  BY <1>2, <2>1, LimitedIs
<1>7. PICK r \in Int, s \in Int :
          /\ u = <<r, s>>
          /\ (r + s) % 2 = 0
          /\ 4 * (r * r + 3 * (s * s)) <= 3 * oo
          /\ ~long => r = x /\ s = y
          /\ long =>
                 /\ 4 * (r * r + 3 * (s * s)) = 3 * oo
                 /\ \E h \in 1 .. ONE : 4 * h * r = ONE * x /\ 4 * h * s = ONE * y
  BY <1>2, <1>6
<1> HIDE DEF x, y
<1>8. /\ t[1] \in Int /\ t[2] \in Int /\ t[3] \in Int
      /\ t = <<t[1], t[2], t[3]>>
      /\ 2 * (t[1] * t[1] + t[2] * t[2] + t[3] * t[3]) = 3 * (r * r + 3 * (s * s))
      /\ d[1] - d[2] = 2 * t[1] /\ d[2] - d[3] = 2 * t[2] /\ d[3] - d[1] = 2 * t[3]
  BY <1>7, SvmIs
<1>9. /\ 2 * t[1] = 2 * r
      /\ 2 * t[2] = -r - 3 * s
      /\ 2 * t[3] = -r + 3 * s
  BY <1>7, ClarkeIs
<1>10. /\ w[1] \in Int /\ w[2] \in Int /\ w[3] \in Int
      /\ 2 * w[1] = 2 * x
      /\ 2 * w[2] = -x - 3 * y
      /\ 2 * w[3] = -x + 3 * y
  BY <1>2, ClarkeIs
<1>11. 2 * (w[1] * w[1] + w[2] * w[2] + w[3] * w[3]) = 3 * (x * x + 3 * (y * y))
  <2> DEFINE a == w[1]
             b == w[2]
             c == w[3]
  <2>1. a \in Int /\ b \in Int /\ c \in Int /\ a = x
          /\ 2 * b = -x - 3 * y /\ 2 * c = -x + 3 * y
    BY <1>2, <1>10
  <2> HIDE DEF a, b, c
  <2>2. (2 * b) * (2 * b) = x * x + 6 * (x * y) + 9 * (y * y)
    <3>1. (-x - 3 * y) * (-x - 3 * y) = x * x + 6 * (x * y) + 9 * (y * y)
      BY <1>2
    <3> QED  BY <2>1, <3>1
  <2>3. (2 * c) * (2 * c) = x * x - 6 * (x * y) + 9 * (y * y)
    <3>1. (-x + 3 * y) * (-x + 3 * y) = x * x - 6 * (x * y) + 9 * (y * y)
      BY <1>2
    <3> QED  BY <2>1, <3>1
  <2>4. (2 * b) * (2 * b) = 4 * (b * b) /\ (2 * c) * (2 * c) = 4 * (c * c)
    BY <2>1
  <2>5. 2 * (a * a + b * b + c * c) = 3 * (x * x + 3 * (y * y))
    BY <1>2, <2>1, <2>2, <2>3, <2>4
  <2> QED  BY <2>5 DEF a, b, c
<1> DEFINE volts == <<d[1] - d[2], d[2] - d[3], d[3] - d[1]>>
           sw == w[1] * w[1] + w[2] * w[2] + w[3] * w[3]
           sv == volts[1] * volts[1] + volts[2] * volts[2] + volts[3] * volts[3]
<1>12. 8 * sw > 9 * ONE * ONE <=> long
  BY <1>2, <1>5, <1>10, <1>11, OneAssumption
<1>13. ASSUME ~long PROVE volts = <<2 * w[1], 2 * w[2], 2 * w[3]>>
  BY <1>7, <1>8, <1>9, <1>10, <1>13
<1>14. ASSUME long PROVE Parallel(volts, w) /\ 2 * sv = 9 * ONE * ONE
  <2>1. PICK h \in 1 .. ONE : 4 * h * r = ONE * x /\ 4 * h * s = ONE * y
    BY <1>7, <1>14
  <2> DEFINE a == volts[1]
             b == volts[2]
             c == volts[3]
             k == 4 * h
             o == 2 * ONE
  <2>2. a \in Int /\ b \in Int /\ c \in Int /\ a = 2 * t[1] /\ b = 2 * t[2] /\ c = 2 * t[3]
    BY <1>8
  <2>3. k \in Nat \ {0} /\ o \in Nat \ {0}
    BY OneAssumption
  <2>4. k * a = o * w[1] /\ k * b = o * w[2] /\ k * c = o * w[3]
    <3>1. a = 2 * r /\ b = -r - 3 * s /\ c = -r + 3 * s
      BY <1>9, <2>2
    <3>2. k * r = ONE * x /\ k * s = ONE * y
      BY <2>1, OneAssumption
    <3>3. k * (2 * r) = 2 * (k * r) /\ k * (-r - 3 * s) = -(k * r) - 3 * (k * s)
            /\ k * (-r + 3 * s) = -(k * r) + 3 * (k * s)
      BY <2>3
    <3>4. /\ o * w[1] = ONE * (2 * w[1])
          /\ o * w[2] = ONE * (2 * w[2])
          /\ o * w[3] = ONE * (2 * w[3])
      BY <1>10, OneAssumption
    <3>5. /\ ONE * (2 * w[1]) = 2 * (ONE * x)
          /\ ONE * (2 * w[2]) = -(ONE * x) - 3 * (ONE * y)
          /\ ONE * (2 * w[3]) = -(ONE * x) + 3 * (ONE * y)
      <4>1. /\ ONE * (2 * x) = 2 * (ONE * x)
            /\ ONE * (-x - 3 * y) = -(ONE * x) - 3 * (ONE * y)
            /\ ONE * (-x + 3 * y) = -(ONE * x) + 3 * (ONE * y)
        BY <1>2, OneAssumption
      <4> QED  BY <1>10, <4>1
    <3> QED  BY <3>1, <3>2, <3>3, <3>4, <3>5
  <2>5. 2 * sv = 9 * ONE * ONE
    <3>1. a * a = 4 * (t[1] * t[1]) /\ b * b = 4 * (t[2] * t[2]) /\ c * c = 4 * (t[3] * t[3])
      BY <1>8, <2>2
    <3>2. sv = 4 * (t[1] * t[1] + t[2] * t[2] + t[3] * t[3])
      BY <1>8, <3>1
    <3>3. 4 * (r * r + 3 * (s * s)) = 3 * oo
      BY <1>7, <1>14
    <3> DEFINE tt == t[1] * t[1] + t[2] * t[2] + t[3] * t[3]
               ll == r * r + 3 * (s * s)
    <3>4. tt \in Int /\ ll \in Int /\ oo \in Int /\ 2 * tt = 3 * ll /\ 4 * ll = 3 * oo
      BY <1>8, <3>3, OneAssumption
    <3>5. sv = 4 * tt /\ oo = ONE * ONE
      BY <3>2
    <3> HIDE DEF tt, ll, oo, sv
    <3>6. 2 * sv = 9 * oo
      BY <3>4, <3>5
    <3> QED  BY <3>4, <3>5, <3>6, OneAssumption
  <2>6. Parallel(volts, w)
    <3> DEFINE p == w[1]
               q == w[2]
               n == w[3]
    <3>1. /\ p \in Int /\ q \in Int /\ n \in Int
          /\ k * a = o * p /\ k * b = o * q /\ k * c = o * n
      BY <1>10, <2>4
    <3> HIDE DEF a, b, c, k, o, p, q, n
    <3>2. a * q = b * p /\ a * p >= 0
      <4>1. k * a = o * p /\ k * b = o * q /\ p \in Int /\ q \in Int
        BY <3>1
      <4>2. a \in Int /\ b \in Int
        BY <2>2
      <4> QED  BY <2>3, <4>1, <4>2, CrossIs
    <3>3. b * n = c * q /\ b * q >= 0
      BY <2>2, <2>3, <3>1, CrossIs
    <3> QED  BY <3>2, <3>3 DEF Parallel, a, b, c, p, q, n
  <2> QED  BY <2>5, <2>6
<1> QED  BY <1>3, <1>12, <1>13, <1>14 DEF Follows, w, v

-----------------------------------------------------------------------------
(* The field follows the rotor.                                            *)

\* What foc_do_process leaves for foc_do_space_vector_modulation is what it
\* finds, and the inverter keeps what the last sample gave it.
Field ==
    /\ worker = "modulate" =>
           sample[busy].v = InvPark(sample[busy].cmd, sample[busy].e)
    /\ shown # NULL => duty = SetDutyCycle(SvmSet(InvPark(shown.cmd, shown.e)))

LEMMA FieldNext == Line /\ Field /\ [Next]_vars => Field'
<1> SUFFICES ASSUME Line, Field, [Next]_vars PROVE Field'
  OBVIOUS
<1>1. ASSUME NEW m \in Meas, StartSample(m) PROVE Field'
  <2>1. m # busy
    BY <1>1 DEF StartSample, Flow!Allocate
  <2> QED  BY <1>1, <2>1 DEF Field, Line, FocType, StartSample, Flow!Allocate, motor
<1>2. CASE PutSample
  <2>1. rotor.m # busy /\ UNCHANGED busy
    BY <1>2 DEF Line, Apart, PutSample, Flow!Submit, flow
  <2>2. busy # NULL => sample'[busy] = sample[busy]
    BY <1>2, <2>1 DEF Line, FocType, PutSample
  <2>3. worker = "modulate" => busy # NULL
    BY DEF Line, FocType
  <2> QED  BY <1>2, <2>1, <2>2, <2>3 DEF Field, PutSample, motor
<1>3. CASE InitializeDriver \/ Register
  BY <1>3 DEF Line, Drive, Field, BeforeSettle, InitializeDriver, Register, flow
<1>4. CASE DoProcess
  <2>1. busy \in Meas
    BY <1>4 DEF Line, FocType, DoProcess
  <2>2. /\ sample'[busy].v = InvPark(sample[busy].cmd, sample[busy].e)
        /\ sample'[busy].cmd = sample[busy].cmd
        /\ sample'[busy].e = sample[busy].e
    BY <1>4, <2>1 DEF Line, FocType, Sample, DoProcess
  <2> QED  BY <1>4, <2>2 DEF Field, DoProcess, flow, motor
<1>5. CASE DoModulation
  <2>1. busy \in Meas
    BY <1>5 DEF Line, FocType, DoModulation
  <2> DEFINE b == sample[busy]
  <2>2. b.cmd \in Given /\ b.e \in 0 .. 5 /\ b.v = InvPark(b.cmd, b.e)
    BY <1>5, <2>1 DEF Line, FocType, Sample, Field, DoModulation
  <2>3. b.v \in Vectors
    BY <2>2 DEF Vectors
  <2>4. duty' = SetDutyCycle(SvmSet(b.v))
    BY <1>5, <2>3 DEF DoModulation, Modulated
  <2> QED  BY <1>5, <2>2, <2>4 DEF Field, DoModulation
<1>6. CASE TakeSample \/ Match \/ FinishSample
  BY <1>6 DEF Field, TakeSample, Match, FinishSample, motor
<1>7. CASE SetCallback \/ CheckQueue \/ FlagQueue \/ StartQueue \/ Aligned
  BY <1>7 DEF Field, SetCallback, CheckQueue, FlagQueue, StartQueue, Aligned,
              flow, motor
<1>8. CASE AllocFails \/ ShellStep \/ UNCHANGED vars
  BY <1>8 DEF Field, AllocFails, ShellStep, SetVq, SetVd, ShellAlign, vars,
              threads, flow, motor
<1> QED  BY <1>1, <1>2, <1>3, <1>4, <1>5, <1>6, <1>7, <1>8
         DEF Next, RotorStep, MainStep, WorkerStep

\* For every set of commands the model's integers hold, also half written, at
\* every angle, and for any number of measurements: the inverter's voltages
\* are the command of the sample that is applied, turned by its angle
\* (foc_nodes.c: foc_do_process; foc_svm.c: foc_svm_set).
THEOREM FieldTurnsWithRotor == Spec => []FieldFollowsRotor
<1>1. Init => Line /\ Field
  BY LineInit DEF Init, Field
<1>2. Line /\ Field /\ [Next]_vars => Line' /\ Field'
  BY LineNext, FieldNext
<1>3. Line /\ Field => FieldFollowsRotor
  <2> SUFFICES ASSUME Line, Field, shown # NULL
               PROVE  Follows(duty, shown.cmd, shown.e)
    BY DEF FieldFollowsRotor
  <2>1. shown.cmd \in Given /\ shown.e \in 0 .. 5
    BY DEF Line, FocType, Sample
  <2>2. duty = SetDutyCycle(SvmSet(InvPark(shown.cmd, shown.e)))
    BY DEF Field
  <2> QED  BY <2>1, <2>2, FieldTurns
<1> QED  BY <1>1, <1>2, <1>3, PTL DEF Spec
=============================================================================
