# A TLA+ model of STeP

STeP, the Secure Telemetry Pipeline, runs on Zephyr. An application registers
*processor nodes* with a manager; threads allocate *measurements* from a shared
pool and hand them to the manager, whose work queue takes each measurement
through the registered nodes, in priority order, runs the chains whose filters
match, calls the subscribers of those nodes and gives the measurement back to
the pool. This directory holds TLA+ modules of that machinery and of three of the
sample applications that drive it with threads, timers, shells and a second core,
the TLC models that check them on small instances, and TLAPS proofs of the
properties that matter most for instances of every size.

Paths below are relative to the repository, which is in `src/`: `src/proc_mgr.c`
here is `src/src/proc_mgr.c` in `PROJECT.json`.

## Inventory

| Component | State | Operations | Depends on |
|---|---|---|---|
| Node registry (`src/proc_mgr.c`, `proc_mgr.h`, `node.h`) | the table `step_pm_nodes`, the next handle `step_pm_handle_counter`, the list `pm_node_slist` in evaluation order, the heap of subscriber chunks, the mutex `step_pm_reg_access` | register, clear, enable, disable, subscribe, node_get, list | init and error handlers of nodes, the filter cache (clear) |
| Measurement processing (`src/proc_mgr.c`) | the work queue `step_pm_work_q` and the locals of `step_pm_process` | put, the work handler, process | registry, cache, filter engine, handlers and subscribers, pool |
| Sample pool (`src/sample_pool.c`) | the heap, the mutex `step_sp_alloc_mtx`, the statistics | alloc, free, bytes_alloc, print | Zephyr's `k_heap` and `k_mutex` |
| Filter cache (`src/cache.c`) | the array of records, the statistics | check, add, clear, print | `k_uptime_get` |
| Filter engine (`src/filter.c`) | none between calls | evaluate | |
| Measurement sizes (`src/measurement.c`, `measurement.h`) | none | size of a payload, validate | |
| FoC motor controller (`samples/foc_controller`) | the driver's globals (callback, pole pairs, encoder offset, duty cycles), the commanded voltages | sampling thread, initialisation, alignment, shell, node chain, space vector modulation | manager, pool |
| IMU samples (`samples/fusion_imu`, `samples/ros2_to_step_bridge`) | the gyroscope's offset and its flag, the sampling thread's struct, the stream flag and its timer, the last result | calibrate, sample, callback, shell, timer, node chains | manager, pool |
| Mobile robot (`samples/mobile_robot_kinematic_server`, two cores) | the command, the endpoint and its binding, on each core a pool and a manager | shell, init handlers, endpoint callbacks, node chains | manager and pool of each core, rpmsg |
| Node printing, instrumentation, base types | none | output, cycle counters, enumerations | |
| Other samples, tests | | they show which call sequences occur | all of the above |

How they interact: a producer calls `step_sp_alloc`, fills the measurement in
and calls `step_pm_put`, which submits it to the work queue. The work queue's
thread calls `step_pm_process`, which takes the registry's mutex, walks the
list, asks the cache or the filter engine and the `matched` handler about each
enabled node, **releases the mutex** while a node's handlers and subscribers
run, takes it again and follows a pointer it read before. At the end it calls
`step_sp_free` with the mutex held. Callbacks may themselves allocate and put.

Behaviour that is hard, and what would make it correct:

* *The registry changes while a measurement is processed.* Nodes must still run
  in order, each match once; a cleared registry must not be followed into a
  null node; the cache must not answer for a node that has gone.
* *Enable and disable take no mutex.* A handle that was checked may be stored to
  after a clear.
* *Two mutexes.* Processing takes the pool's with the registry's held. Whoever
  keeps either stops everything; every measurement must be given back once.
* *Insertion by priority.* The list must hold each node once and keep ties in
  the order of registration.
* *The pool fills up.* A failing call must leave the pool usable, and the byte
  count must stay that of the live blocks. Payloads do not lie where the code
  expects them.
* *Time in the cache.* Records used in the same millisecond, records added at
  time 0, a full cache.
* *The operand loop of the filters.* What a chain means is spread over the
  iterations of a loop.
* *Sizes in float arithmetic.* A computed size must be enough for what the header
  describes, for every type, count, encoding and timestamp.
* *A chain that starts the hardware.* The motor's init handler holds the registry
  for half a second while samples pile up; nothing may drive the motor meanwhile,
  and what was sampled before must not come after what was sampled since.
* *A struct that is filled in while it is read.* In `fusion_imu` a queued payload
  is the struct the sampling thread fills in, sensor by sensor, waiting for a bus
  in between.
* *One flag for several threads.* Calibrations of the IMU run in the sampling
  thread and on the shell, and other threads poll and read the flag.
* *Two cores.* A command passes two queues and two channels that may be full,
  unbound or without a chain at the end.

`PROJECT.json` lists these hazards with the line where each bites.

## Modules

| Module | Models | Instances |
|---|---|---|
| `Registry` | the node registry: one action per API call, registration in steps | `MCRegistry` |
| `ProcMgr` (extends `Registry`) | producers, the work queue and `step_pm_process` against the changing registry | `MCProcMgr` |
| `MeasurementFlow` | abstract: what the manager promises about measurements | refined by `ProcMgr`, used by `FocController` and `ImuProducer` |
| `SamplePool` | alloc and free, step by step | itself |
| `Measurement` | `step_mes_sz_payload` and `step_mes_validate` | `MCMeasurement` |
| `SpaceVector` | the transforms and the space vector modulation of the FoC sample | through `FocController` |
| `FocController` (extends `SpaceVector`) | the threads of the FoC sample, composed with `MeasurementFlow` | `MCFocController` |
| `ImuProducer` | the threads and the timer of both IMU samples, composed with `MeasurementFlow` | itself |
| `RobotKinematics` | both cores of the mobile robot | `MCRobotKinematics` |
| `FilterCache` | the array of cache records and its clock | itself |
| `LossyMemo` | abstract: a memo that may forget but not lie | refined by `FilterCache`, used by `ProcMgr` |
| `FilterEngine` | the evaluation of a filter chain | `MCFilterEngine` |
| `ProcMgrProofs` (with those of `Registry`), `SamplePoolProofs`, `FilterCacheProofs`, `FilterEngineProofs`, `MeasurementProofs`, `FocControllerProofs`, `RobotKinematicsProofs`, `ImuProducerProofs` | theorems | |

### Registry

`nodes` is the table, indexed by handle; a record has the node chain, its
priority, its handle, the enabled flag and the list of subscriber chunks.
`slist` is the linked list, as the sequence of handles it visits. `cb_pool`
holds the chunks taken from the callback heap with their next links; the list
of a record is kept both as a sequence and through these links, and `SubsSound`
says that they agree. Every call that takes `step_pm_reg_access` holds it from
its first access to its last, so it is one action whose guard is
that the mutex is free. Registration is several: `Register` fills the record and
links it in, `CallInitHandler` and `SkipInitHandler` go through the instances
of the chain with the mutex held, `RegisterReturn` releases it. Enable and
disable take no mutex and are two actions, enabled while it is held: `CheckHandle`
is the check of the handle, `SetEnabled` the store of the flag, and whatever
happens in between, a clear included, happens in between (`toggle` is what a thread
has checked and not stored yet). `stray` is history: TRUE once a store has enabled
a record of the table that is not registered.

The handle checks are those of the code (`> handle_counter`), so the handle one
past the last is accepted. With a full table that is the memory behind the array.
What lies there is up to the linker; the model sees it as one more record
(`Slots`), which is blank at first, which a clear does not zero and which is in no
list: enable and disable write its flag, subscribe takes a chunk and links it
there. What else the store may hit is not modelled. A call that returns an error
before it changes anything is a stuttering step. `epoch` counts clears and is
history only.

### ProcMgr

Each producer holds at most one measurement (`held`), `queue` is the work
queue, and `w` is the state of the work queue's thread: where it is in
`step_pm_process` (`w.pc`), `pnode` and the pointer to the record after it
(`cur`, `tmp`), `n` with the instance and handler stage, and the subscriber
pointers. `Advance` is one turn of the SAFE list macro: the current record becomes the one
that was read before, and the one after that is read now. `Evaluated` is the
release of the mutex, `Relock` the taking of it again. The thread of the queue may
itself allocate and put, from inside a callback. A node that is reached enabled
but without a chain, or a missing error handler that is called, ends in
`"fault"`. The pool is abstracted to which measurements are free and who kept
its mutex after a failed allocation (`sp_owner`). Processing has stopped
(`Stopped`) after a fault, or when a thread other than the queue's own keeps that
mutex; the application's threads go on in the model after a fault, which allows
more than the system does. The cache is abstracted to a function from
bits and handle to a result with at most `CACHE_DEPTH` entries, of which any may
be lost to make room; the filters and handlers of a node to `Accepts` (which
filter bits match), `Vetoes` (which payloads its `matched` handler turns down)
and `Handlers`. Those abstractions are what `SamplePool`, `FilterCache` and
`FilterEngine` are about.

### SamplePool

A call is a chain of steps: load and store of its call counter (outside of the
mutex), the lock, the heap operation, the statistics and the unlock. `heap` maps
the address of a live block to the size asked for and the length its header
holds now, which the application may lower (`WriteHeader`; `shorter` is the
history of that). The payload of a block begins `sizeof` structs behind it
(`sample_pool.c:88`; `Struck` gives the blocks whose structs it then overlaps). The
`memset` of the allocation may zero the lengths of those blocks (`AllocHeap`), and
the application's writes may leave any length in one of them (`WritePayload`);
`struck` is the history of that. The other fields of a struck header, the heap's
own records and the memory behind the heap, which payloads reach as well, are not
in the model. The mutex has an owner and a count, since Zephyr's is recursive. `AllocFails`
returns without unlocking, as `sample_pool.c:67-71` does.

### FilterCache

`recs` is the array. `now` is the time of the last call; the next may be in the
same millisecond or the one after. `missed` is the key between a check that did
not find it and the add that follows: `step_pm_process` makes the two calls with
no other between them, and the model makes no other sequence. `used` is history:
when each key was last asked for or added.

### FilterEngine

`fc`, `mes` and `match` are the arguments, `prev` and `i` the locals of the loop;
one action per early return and one per iteration. `match` is the variable of
`step_pm_process`, which holds the result of the node before when the call is
made. Words are sets of bits, so
the masks `& ~ignore_mask` are set differences.

### Measurement

The header is a record of the fields the size depends on, the types as kind and
width. `Encoded` gives what the float expressions of the code give: `CeilThird`
is exact below 2^21 bytes, and `Lost` is what a product with 1.67 loses when it is
rounded to 24 bits. The reference is the layout `measurement.h` documents
and the definitions of BASE64 and BASE45.

### SpaceVector and FocController

A vector `<<alpha, B>>` with `beta = sqrt(3) B`, angles in sixths of a turn and
voltages in units of `1/ONE` volt make every operation exact in the integers;
`sqrt` of a long vector is the whole `h` that its square belongs to, which exists
for the instance's commands: `ExactAssumption` says that every vector the commands
make, also half written ones, is whole where it is scaled. It restricts the model
to commands the integers can hold, not the code, and TLC evaluates it. `FocController` has the sampling thread, which
preempts everything else and waits only for the bus (so a turn is two actions,
around the wait), and which writes a sample through NULL when the pool is full: a
fault, after which no thread takes a step (`Next`). Besides it there are `main`
(driver, start of the work queue, registration with the alignment in its init handler), the shell with a command in two writes, and the
thread of the work queue. The pool and the queue are those of
`MeasurementFlow`, which the manager implements. `stamp` and `shown` are history.

### ImuProducer

The sampling thread fetches the accelerometer, the gyroscope and the magnetometer
one after the other (`FetchAccel`, `FetchGyro`, `FetchMag`) with waits for a bus in
between; the rotation as it was read stands in the struct until `FetchMag`
corrects it. The values of one sensor are stored together, since the thread does
not wait between them. A chain reads the struct in one step: the work queue's thread has
the higher priority (`CONFIG_STEP_PROC_MGR_PRIORITY`, 0 against the sampling
thread's 1, -4 against -1 in the bridge). Until `main` has installed the callback
a sample goes nowhere (`NotProduced`). A calibration reads into a struct of
its own, in one step.

The board stands still and shows `Bias`; the flag `calibrated` decides
whether a reading is corrected, for every thread that reads. Both applications
are one model, with `bridge` chosen at the start: the bridge copies the sample
into the measurement, `fusion_imu` hands out a pointer to the thread's struct
(`payload[m] = NULL`).

### RobotKinematics

Each core has a queue, a work queue's thread, a pool of `Room` measurements and
the thread that may have kept its mutex. `link` is a channel with `Buffers`
buffers that keeps the order. The calculations are in units of the wheel's
radius, of which the robot's dimensions divide out; a division by an unset
dimension gives `NULL`. A payload stays with its measurement, as it does in
all models but `SamplePool`.

## Runs

| Run | Shows | Size |
|---|---|---|
| `registry` | list, order and subscriber lists stay sound; registrations are stable until a clear | 3 records, 2 chunks, 2 chains (of 1 and 2 instances), a thread that registers, subscribes and clears and one that enables and disables twice, 2 priorities, 1 clear, any handle; 1.05M states |
| `pool` | mutual exclusion, ownership of blocks, the byte count until a payload strikes another header; a free completes as long as no allocation has found the heap full | 2 threads with 2 allocations each, a struct of 4 bytes, so that a payload begins 16 bytes behind its block, payloads of 4 and 12 bytes, whose blocks take 8 and 16 and are counted as 16 and 24, 24 bytes, so that two or three blocks fill the pool and the payload of the first strikes the third, one header written by its owner and one by a payload; 552k |
| `pool_full` | fails: what happens once an allocation has found the heap full, below | the same instance |
| `manager` | run order, every match runs, subscribers are called | 3 records, 2 chunks, a measurement, a registering thread and one call of enable or disable; 4.1M |
| `manager_faults` | the mutex discipline, ownership of measurements, a sound cache | 2 threads, 2 words of filter bits, failing and missing handlers, a full pool, a clear, one call of enable or disable, a cache with one record; 3.4M |
| `manager_live` | measurements are processed, in order, until the manager stops; no null node is called as long as no enable was stored to an empty record; the cache is used as a memo | 2 measurements and 3 allocations, so that one can fail, failing handlers, a clear, one call of enable or disable, a cache with one record; 290k |
| `cache` | least recently used, found after added, implements `LossyMemo` | 3 keys for 2 slots, times 0 to 4, up to 6 checks, 1 clear; 61k |
| `filter` | what the loop computes is what the chain means | every chain of up to 3 filters out of 24, 2 bits; 346k |
| `measurement` | the computed size is enough, accepted measurements have room | headers of all types, vector sizes, encodings and timestamps, the smallest and largest sample counts, and lengths around each type's sizes; 372k |
| `foc` | nothing disturbs the alignment, the inverter gives the commanded voltage at the rotor's angle, newer samples win, up to a write through NULL | 2 measurements, 2 positions and a failing bus, a command beyond the limit and its halves, 2 settings; 620k |
| `imu` | a calibration that runs alone finds the bias, processed samples are corrected but for a struct half filled in, and are what was put or nothing older, start and streams end | calibrations of 2 readings, 1 from the shell, 2 streams, 3 samples fetched, 2 measurements; 748k |
| `robot` | results in order, of their own command and moving the robot as calculated; nothing sent too early; every command answered or dropped at a known step | 3 commands of 2 speeds, room for 2 measurements on each core, 1 buffer per channel; 193k |

Why these bounds are enough: an insertion has a front, a middle and an end with
two records in the list; two threads are enough for each to meet the other
in every step of its call, and one thread's failed call to meet the other's free;
three keys for two slots make every choice of a victim; one clear gives handles
that are used again; two calls of enable or disable (`MaxToggles`) put one store
before a clear and one behind it; two measurements make an order, and a third
allocation finds the pool of two full. In `foc` two measurements are
one in the worker's hands and one behind it, which is a full pool; a long command
and its two halves reach both the limited and the unlimited vectors. The run
meets only some sixths of a turn; every angle is what `FieldTurnsWithRotor` is for.
In `imu` three fetched samples are one that is put, and one and a half that
overwrite it. In `robot` a third command
finds the pool of two full, and one buffer is full with one message. What the bounds leave out is
quantity, which is what the proofs add.

`CHECK_DEADLOCK FALSE` is said in every run: the bounds on calls end every
behaviour, and a thread that meets a full pool stops the others (see `pool_full`),
or in `foc` the whole system. That threads do not wait for ever otherwise is what
`FreeCompletesWithRoom`, `Processed`, `StartupEnds`, `StreamEnds` and `Answered` say.

Fairness:

* `SamplePool`: a thread inside a call is scheduled, and a mutex that is released
  again and again goes to a waiter, as Zephyr's does by handing it over on
  unlock (strong fairness of `Lock`).
* `ProcMgr` (`manager_live`): weak fairness of the work queue's thread and of the
  init handlers of a running registration: the kernel schedules them and what
  they call returns. Weak fairness is enough for the registry's mutex because
  across steps only a registration holds it, and between two clears there are at
  most `NODE_LIMIT` of those. Nothing is assumed of producers, nor of threads
  that call the registry.
* `FocController`: none. The run has safety properties only: with a full pool, which
  the alignment brings about, a sample may be written through NULL at any time, and
  nothing is sure to happen.
* `ImuProducer`: weak fairness of the application's threads, of
  the work queue's and of a started timer, since Zephyr runs what is ready. A
  shell command that has begun is finished; that one is given is not assumed.
* `RobotKinematics`: weak fairness of each core's threads and endpoint callbacks,
  and that the remote core boots (`Bind`). Nothing is assumed of the shell.

`Processed` and `FlowImplemented` speak of a manager that has not stopped: after an
allocation that failed in a thread of the application (`sample_pool.c:70`), or after a
fault, what is queued stays queued. In `MeasurementFlow` that is the step `Stop`,
and its fairness holds until then. A failed allocation inside a callback does not stop
the manager, since the mutex is recursive.

`CacheSound` and `EveryMatchRuns` are checked with no payload that a `matched`
handler turns down; what happens otherwise is below (`proc_mgr.c:192`).

### Difference between code and documentation with a run

* `pool_full`: a failed allocation returns with the mutex held
  (`sample_pool.c:70`); a free in another thread waits for ever. Since
  processing frees with the registry locked, the manager stops too. The same
  happens on either core of the robot and in both IMU samples.

### Differences read off the code, without a run

The models have the code's behaviour in each of these; no property contradicts it.

* Enable, disable and subscribe compare the handle with
  `> step_pm_handle_counter` (`proc_mgr.c:463`, 482, 504), so the first handle that
  is not registered is accepted.
* Enable and disable check the handle (`proc_mgr.c:463`, 482) and store the flag
  (468, 487) without the mutex, though the comment at line 97 says "Registry should
  be locked during processing or when modifying it". When a clear comes between
  the two, the store leaves an enabled record without a node; the same is left by
  an enable of the first unregistered handle. A registration that fills the record
  in mends it, but a measurement whose processing is in a callback meanwhile follows the
  pointer it read before into that record and dereferences its NULL node. `NoFault`
  says that this is the only way: it holds while `stray` is FALSE.
* Subscribing to the first handle behind a full table takes a chunk and appends it to
  a list behind the array (`proc_mgr.c:504-524`).
* `mes + sizeof(struct step_measurement)` (`sample_pool.c:88`) counts in structs, so
  a payload does not start "just after the sample struct", as line 87 has it, but
  `sizeof` structs behind it. What is written there, by the `memset` and by the
  application, lands in other blocks or behind the heap; a free then counts by the
  length it finds in a struck header. `BytesAccounted` says what is kept of the
  byte count: all of it until a header is struck, after that the difference of the totals.
* The result of the `matched` handler is cached under the filter bits
  (`proc_mgr.c:192`) and decides for the next payload with the same bits.
* `step_pm_register` returns the code of the last init handler only
  (`proc_mgr.c:349`).
* `step_pm_clear` zeroes subscriber lists without freeing their chunks
  (`proc_mgr.c:443`), and no call frees one.
* After a clear during processing, the remaining callbacks get handle 0
  (`proc_mgr.c:245`).
* The stop handler is called after a failed exec handler (`proc_mgr.c:227`);
  `node.h:145-146` speaks of success.
* Error handlers are called without a check for NULL (`proc_mgr.c:210`, 221,
  232, 351), while `node.h:92` calls the callbacks optional. `NoFault` is checked
  with an error handler on every chain.
* Padding is 8 bytes for a record that is aligned already
  (`sample_pool.c:78`), and a header whose length changed is uncounted by the
  new length (`sample_pool.c:42`).
* The call counters of the pool may lose updates (`sample_pool.c:34`, 59).
* Of two records used in the same millisecond the first in the array is
  replaced (`cache.c:120`); a record added at uptime 0 is in a slot that reads as
  empty (`cache.c:133`); `removals` is never incremented (`cache.c:127`).
* A NULL chain with a count is read through (`filter.c:129`), and IS or NOT in
  the middle of a chain discards the result so far (`filter.c:136`).
* `step_pm_node_get` reads the next pointer of a null node for the first
  unregistered handle (`proc_mgr.c:371`, 386); `step_pm_list` walks the registry
  without the mutex (`proc_mgr.c:547`) and divides by a count of runs that may be 0.
* Measurements: the size for BASE45 is the worst case of 1.67 characters a byte,
  while 1.5 are enough (`measurement.c:176`); `step_mes_validate` refuses a fragment,
  which is shorter than its whole payload; data format and compression are not
  accounted for.
* Motor: the sampling thread writes through the NULL of a failed allocation
  (`foc_driver.c:132`), which the alignment's half second of queued samples brings
  about, and the fault stops the whole system; samples taken before the alignment, and before the pole pairs are set,
  drive the motor first after it; the shell's `align` sets the offset where the
  rotor is, without a vector; a failing bus reads as the last position; a
  command may be used with its first half new and its second old.
* The start of the work queue (`proc_mgr.c:106`): a sample that is put between the
  assignment of the flag and the initialisation is lost, and of two first calls
  both may initialise the queue, the second while it runs. `FocController` has
  both (`wq` is `"flagged"`, `"broken"`).
* IMU: two calibrations at a time spoil each other's offset
  (`imu_data_producer.c:176`); a later calibration lets uncorrected samples
  through; the payload of `fusion_imu` is the struct that the next sample
  overwrites, so that a chain may process a struct half filled in, with the rotation
  as it was read, while the magnetometer is waited for
  (`imu_data_producer.c:75-106`, `main.c:43`); `stream 0`, which "stays running until the board gets reset", is
  ended by the timer of an earlier timed stream.
* Robot: `average_rps_a` is computed and not used, so that wheels that turn the
  robot on the spot give heading 0 and wheel speeds 0 (`kinematic_node.c`), where
  the sample's README says that the second core calculates the motors' speeds
  back; without the kinematics command the calculation divides by 0; a message
  that arrives before the remote chain is registered, or that finds no buffer or
  no memory, is dropped without an error.

## Theorems

All are checked by TLAPS, for every value of the constants that satisfies the
module's named assumption.

* `RegistrySafe` (`ProcMgrProofs`): `Spec => [](TypeOK /\ ListSound /\
  PriorityOrder /\ SubsSound)`. Together with `MutexSound` (a registration that
  runs its init handlers holds the mutex) the conjunction is inductive:
  order alone is not, since an insertion keeps it only if the new handle is
  larger than every one in the list (ties go behind) and the list holds no record
  the insertion does not see (`ListSound`); subscriber lists stay disjoint
  because every chunk in use is at most `Len(cb_pool)`. The insertion itself is a
  lemma about `InsertAt`: what each position of the new list holds. `RegistryOrdered`
  and `SubscribersLinked` state its two properties on their own.
* `RegistrationsStay`: `Spec => RegistrationStable`, from the same invariant.
* `ManagerLocks` (`ProcMgrProofs`): `ManagerSpec => [](ProcessingLocked /\ TypeOK
  /\ ListSound /\ PriorityOrder /\ SubsSound)`. The registry's invariant is used
  as it is: a step of the work queue's thread changes nothing of the registry but
  the mutex, and a call of the registry is a step of `Registry` also
  when it runs beside processing. Added to it are which steps of processing hold the
  mutex and that a running registration is its owner, never the work queue.
* `ManagerOwns` (`ProcMgrProofs`): `ManagerSpec => []MeasurementsOwned`. The
  invariant is that no two of the places a measurement can be in (a thread, the
  queue, the work queue's thread) hold the same one, and that whatever is in a
  place is allocated and the reverse.
* `ManagerImplementsFlow` (`ProcMgrProofs`): the initial states and every step of
  the manager are those of `MeasurementFlow` or leave it alone, and a manager that has
  stopped stays so; this is `FlowImplemented` without its fairness.
* `ManagerRunsInOrder` (`ProcMgrProofs`): `ManagerSpec => []RunOrder`. The
  invariant `WalkInv` says of the epoch in which processing began that what has run
  stands before the record processing is at, or is this record, and that one
  before the record that was read as its next (`Ranked`). A call
  of the registry in between leaves both sides of each of these facts in place, which
  is what `RegistrationsStay` gives; a step of the walk uses `PriorityOrder` for the
  record that follows.
* `ManagerNeverFaults`: `ManagerSpec => [](ErrorHandlers = Nodes => NoFault)`, whatever
  handles are passed and whenever the registry is cleared. Every node needs an error
  handler, since one that is missing is called all the same when a handler fails. The invariant
  `Calm` says that an enabled record is a registered one, which a clear keeps (it
  zeroes the flag too) and which only a store that `stray` records can break. So
  a clear under the processing of a measurement leads it to records that are passed over.
* `ManagerCacheSound`: `ManagerSpec => [](Vetoes = {} => CacheSound)`. `Vetoes = {}`:
  a matched handler that turns a measurement down for its payload has its answer
  cached under the filter bits, for other payloads too. Besides the cache,
  `CacheInv` says that a record has a node only if it is registered
  (`NodesPlaced`), and takes from `OwnInv` that the measurement being evaluated is allocated.
* `ManagerCallsSubscribers`: `ManagerSpec => []SubscribersCalled`. `Calling` says which
  positions of the list the two pointers `sub` and `subtmp` are at; a subscription in
  between can only lengthen the list (`SubsGrow`).
* `ManagerMissesNone`: `ManagerSpec => [](Vetoes = {} => EveryMatchRuns)`. Order alone does
  not say that nothing is left out. `Offered` adds that every record that was registered when the
  walk began, and is neither settled nor was found disabled, is still ahead,
  and that none of these stands between the record processing is at and the one it
  read as next: what is registered meanwhile may stand there, but was not
  due. It needs the cache to be sound, since a wrong FALSE would lose a node.
* `ManagerTyped`: `ManagerSpec => []ManagerTypeOK`. What is not plain in it are the two
  pointers into the callback heap: a clear under a walk of the subscribers empties the
  list they point into, and they stay inside the heap only because chunks are
  never given back and each links to one that has been taken (`LinksInside`).
* `ManagerUsesMemo`: `ManagerSpec => CacheUsedAsMemo`: whatever the manager does with
  its cache is a step of `LossyMemo` or leaves it alone. It rests on `MemoRoom`, that
  there are never more results than records. `CacheIsMemo`, below, says the same of
  `FilterCache`. The two do not compose into a refinement: both are shown to stay
  within `LossyMemo`, which is what the manager's properties need of a cache, but
  `FilterCache` also does what the manager's model never does, a record added at time 0
  that is not found again, which is a stutter of the memo.
* `PoolSafe` (`SamplePoolProofs`): `Spec => [](TypeOK /\ CriticalSection /\
  BlocksOwned)`. Exclusion holds because a thread inside a call owns the mutex
  with a positive count that no other thread changes, also when earlier failed
  calls have left the count too high. Ownership needs both facts together: a
  block that is being handed out lies at an address that was free, so no call in
  progress had it. `CallsExclude` states exclusion on its own.
* `BytesAreCounted` (`SamplePoolProofs`): `Spec => []BytesAccounted`, for any number of
  threads, sizes, addresses and lengths. `Account` adds to the invariant of `PoolSafe` that,
  until a payload has struck the header of another block, no
  header is longer than what was asked for, and that it says just that as long as no
  application has shortened one. The bytes of a set of blocks are the cardinality
  of a set of pairs (`CountedBytes`), and one block more or less changes it by the block's
  size (`BytesAdd`, `BytesRemove`).
* `RecordsUnique` and `OldestMakesRoom` (`FilterCacheProofs`): no key is in two
  records; the record that makes room is one used longest ago, and a record that
  was added is found (`NewestIsFound`). The invariant ties `last_used` to the history
  `used`.
* `CacheIsMemo` (`FilterCacheProofs`): `Spec => MemoImplemented`. Because keys are
  unique, the records in use are as many as the keys with a result, so a
  free record means that there is room and a replaced one that there is none.
  A record added at time 0 is a stutter of the memo.
* `FilterMeaning` (`FilterEngineProofs`): for chains of any length, chains of
  one operand are quantifiers over their filters (all, one, none) or their
  parity, an error never matches, and only a chain that starts with IS or NOT is
  evaluated. The invariant says what `prev` is after `i` filters; the loop of the
  code is the induction. `ErrorsNeverMatch` states the errors on their own.
* `IgnoredBitsDoNotCount` (`FilterEngineProofs`): `Spec => []IgnoredBits`. What a chain
  gives for another word is stated as the last value of a function that follows the chain
  (`Results`), of which there is one for each word; a function that follows the chain for
  one word also follows it for a word that differs only in bits every filter ignores.
* `SizesSound` (`MeasurementProofs`): `Spec => [](SizeSuffices /\ AcceptedHasRoom)`,
  for whatever headers applications write (the constant `Headers`, any set of
  headers with 16 bits of length). Types, sample counts, vector sizes and
  timestamps are finite and each size is bounded (`WorstCase`), which the
  arithmetic needs: `EncodedFits` and `PayloadFits` bound the rounding, and
  `AcceptedHasRoom` (`AcceptedFits`) follows from what `SizePayload` gives for a header
  whatever the call.
* `VoltageUndisturbed` (`FocControllerProofs`): `Spec => []VoltageOwned`. `Drive` ties the
  mutex of the registry to `main`: it is held for as long as the rotor settles, so
  the chain is not run before alignment is over, and before that nothing was applied.
* `NewestShown`: `Spec => NewerApplied`. A measurement is in one place, once (`Apart`),
  and from what is shown over what is processed to what waits no sample is older
  than the one before it (`Sorted`).
* `FieldTurnsWithRotor`: `Spec => []FieldFollowsRotor`, for every set of commands that
  satisfies `ExactAssumption` and every angle. `Field` says that the vector handed from one
  node to the next is that of the sample's own command and angle. That the three duty
  cycles give this vector back is proved for each of the six sectors, without and with the
  scaling of a long vector, in the integers.
* `RobotSafe` (`RobotKinematicsProofs`): `Spec => [](ResultsInOrder /\
  WheelsMoveBody /\ SentWhenBound)`, for any number of commands, speeds,
  measurements and buffers. A command passes seven places: the queue, the hands
  of the work queue and the channel of each core, and what is shown. The invariant
  says of these places put behind one another that a payload in a later one is of an
  earlier command and that each is what its command makes it at that place; a
  step passes one payload from the end of one place to the start of the next
  (`Passing`), drops one (`Dropping`) or leaves them alone (`Resting`), and
  those three lemmas carry every action. That the wheels move the robot
  (`WheelsMatchBody`) is the identity of the two calculations, proved in the integers;
  `NothingBeforeBound` states that of the channels on its own.
* `ImuSafe` (`ImuProducerProofs`): `Spec => [](OffsetIsBias /\ ProcessedCorrected /\
  ProcessedAsPut)`, for calibrations of any number of readings, any bias and any
  number of measurements and commands. A calibration that runs alone reads with the
  flag down, so its sum is a multiple of the bias; whenever nobody calibrates and
  the first calibration is over, the flag is up; and, as long as no two ran at
  once, the flag up means that the offset is the bias. The struct is whole but while the
  sampling thread fills it in, and holds the plain reading only then (`Filling`): a
  reading that is not corrected is of a calibration, or in a struct whose accelerometer is
  a sample ahead of its magnetometer. A measurement that anyone holds has the payload it
  was put with (bridge), or the struct, whose values are at least as new.
  `BiasFound` and `RotationTrue` state the offset and the corrected rotation on their own.

Only model-checked: liveness (`FreeCompletesWithRoom`, `FreeCompletes`, `Processed`,
`StartupEnds`, `StreamEnds`, `Answered`) and the fairness
`FlowImplemented` asks for, which need ENABLED and so are out of the prover's reach. Every
safety invariant and action property of the runs is a theorem, `NoFault`, `CacheSound`
and `EveryMatchRuns` under the condition their theorem names, which holds in
their run. Two of these properties
are stated the way they are because of the proof: `IgnoredBits` over the functions that
follow a chain and `BytesAccounted` as a cardinality, instead of a fold, of which nothing
could be proved without induction over an operator.

## Not modelled

* `step_pm_list` and `step_pm_node_get`, which change no state, as readers of a
  registry that changes; printing, shells that only print, and instrumentation.
* Error paths of `step_pm_put`, a measurement that is put twice, and
  measurements that are not from the pool (`free_after_use` false).
* Registry calls that init handlers make with the (recursive) mutex held, and
  those that callbacks make on the work queue's own thread.
* Configurations without the cache (Kconfig), and an `evaluate_handler` in place
  of the filters, which `Accepts` stands for as long as it looks at the filter bits
  only.
* The start of the work queue (`proc_mgr.c:103-113`) outside of `FocController`: the
  other models begin when it runs.
* What displaced payloads (`sample_pool.c:88`) do beyond the lengths of live blocks:
  to the other fields of their headers, to other payloads, to the heap's records and
  behind the heap. The models other than `SamplePool` keep a payload with its measurement.
* What a store behind a full table hits: it is one more record in `Registry`.
* Enable and disable called by the handlers themselves: the threads that call them
  (`Togglers`) are the application's.
* In the samples: the fusion filter itself (a library) and `set_mahoney`, the copy of the
  raw data the shell prints, the transport of micro-ROS, starting and
  resetting the second core (`mps2_an521` wakeup and sleep), and rounding of floats other
  than in `src/measurement.c`.
* The samples `throughput`, `simple_subscription` and `shell`, which call the
  library one step after another; they are what the instances' call sequences are
  taken from.

## Plan

1. Done, the library: `Registry`, `SamplePool`, `FilterCache` with `LossyMemo`,
   `FilterEngine`, `ProcMgr` with `MeasurementFlow`, `Measurement`, with their safety
   proofs and both refinements.
2. Done, the samples with concurrency of their own: `FocController`,
   `ImuProducer` and `RobotKinematics`, with their safety proofs.
3. Left in the model: registry calls from callbacks; measurements from outside the
   pool and a measurement that is put twice; `step_pm_node_get` and `step_pm_list` as
   readers of the registry.
4. Done in the composition: the cache of `ProcMgr` is used as `LossyMemo` allows, and
   `FilterCache` does what it allows. Left: a cache in `ProcMgr` that may also lose what was
   just added, so that `FilterCache` is below it step by step; the pool of `ProcMgr` shown to be what `SamplePool`
   provides.
5. Done in the proofs: every safety property of the runs, the type invariants among them.
   Left: the step part of a refinement for `FocController` and `ImuProducer`, whose
   use of `MeasurementFlow` is by construction, and what `ManagerMissesNone` says with
   handlers that turn payloads down.
