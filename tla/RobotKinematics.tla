-------------------------- MODULE RobotKinematics ---------------------------
(***************************************************************************)
(* The two cores of samples/mobile_robot_kinematic_server: the shell of    *)
(* the server puts a command, the server's node chain calculates the       *)
(* robot's velocity and sends it to the remote core over rpmsg, whose      *)
(* endpoint callback puts it there; the remote's chain calculates the      *)
(* wheel speeds and sends them back, and the server's callback shows them. *)
(* The two channels keep the order of the messages.                        *)
(***************************************************************************)
EXTENDS Integers, Sequences

CONSTANTS
    Speeds,     \* bound: the speeds of the four wheels that are set, each four
                \* times a number, so that their means are whole
    MaxCommands,\* bound: the calculations asked for
    Room,       \* the measurements each core's pool has room for
    Buffers,    \* the messages a channel has buffers for
    NULL

ASSUME RobotAssumption ==
    /\ Speeds \subseteq [1 .. 4 -> Int]
    /\ MaxCommands \in Nat
    /\ {Room, Buffers} \subseteq Nat \ {0}

VARIABLES
    command,    \* payload on the server: are the kinematics set, the speeds
    chain,      \* main of each core: none, init, or done when it is registered
    bound,      \* the remote endpoint has been announced to the server
    queue,      \* the payloads that wait on each core, oldest first
    busy,       \* the payload each core's work queue processes, or NULL
    worker,     \* where that thread is
    sp_owner,   \* the thread of each core that has kept the pool's mutex
    link,       \* the messages on their way to each core
    given,      \* history: the commands that were put
    lost,       \* history: those that were dropped without an error
    shown       \* history: the results the server has shown

pools == <<queue, busy, sp_owner>>
history == <<given, lost, shown>>
vars == <<command, chain, bound, pools, worker, link, history>>

Cores == {"server", "remote"}
Other(core) == IF core = "server" THEN "remote" ELSE "server"

Init ==
    /\ command = [set |-> FALSE, speeds |-> <<0, 0, 0, 0>>]
    /\ chain = [core \in Cores |-> "none"]
    /\ bound = FALSE
    /\ queue = [core \in Cores |-> <<>>]
    /\ busy = [core \in Cores |-> NULL]
    /\ worker = [core \in Cores |-> "idle"]
    /\ sp_owner = [core \in Cores |-> NULL]
    /\ link = [core \in Cores |-> <<>>]
    /\ given = <<>>
    /\ lost = {}
    /\ shown = <<>>

-----------------------------------------------------------------------------
(* The two calculations.  Velocities are in units of the wheel's scaled    *)
(* radius, and the heading in that over half the robot's length and width, *)
(* which divide out on the remote core; before they are set they are 0,    *)
(* and dividing by them gives no number.                                   *)

MeanX(w) == (w[1] + w[2] + w[3] + w[4]) \div 4
MeanY(w) == (-w[1] + w[2] + w[3] - w[4]) \div 4

\* do_process of the server: the heading comes from the mean of the y axis.
DirectKinematics(p) ==
    [p EXCEPT !.body = IF p.set
        THEN [x |-> MeanX(p.speeds), y |-> MeanY(p.speeds),
              heading |-> MeanY(p.speeds)]
        ELSE [x |-> 0, y |-> 0, heading |-> NULL]]

Joints(b) ==
    <<b.x - b.y - b.heading, b.x + b.y + b.heading,
      b.x + b.y - b.heading, b.x - b.y + b.heading>>

\* Mutant of the next definition: the velocity across is kept.
InverseSideways(p) ==
    [p EXCEPT !.joints = IF p.set THEN Joints(p.body) ELSE NULL]

\* do_process of the remote, which has no wheels to move sideways.
InverseKinematics(p) ==
    LET b == [p.body EXCEPT !.y = 0]
    IN  [p EXCEPT !.body = b, !.joints = IF p.set THEN Joints(b) ELSE NULL]

-----------------------------------------------------------------------------
(* The shell of the server.                                                *)

HasRoom(core) == Len(queue[core]) + (IF busy[core] = NULL THEN 0 ELSE 1) < Room

\* The whole payload is copied into the measurement before it is put.
CmdCalculate ==
    /\ Len(given) < MaxCommands
    /\ HasRoom("server")
    /\ sp_owner["server"] \in {NULL, "shell"}
    /\ LET p == [id |-> Len(given) + 1, set |-> command.set,
                 speeds |-> command.speeds, body |-> NULL, joints |-> NULL]
       IN  queue' = [queue EXCEPT !["server"] = Append(@, p)]
    /\ given' = Append(given, command)
    /\ UNCHANGED <<command, chain, bound, busy, sp_owner, worker, link, lost,
                   shown>>

\* -ENOMEM, and step_sp_alloc has kept its mutex.
CalculateFails ==
    /\ ~HasRoom("server")
    /\ sp_owner' = [sp_owner EXCEPT !["server"] = "shell"]
    /\ UNCHANGED <<command, chain, bound, queue, busy, worker, link, history>>

CmdKinematics ==
    /\ command' = [command EXCEPT !.set = TRUE]
    /\ UNCHANGED <<chain, bound, pools, worker, link, history>>

CmdSetSpeeds(w) ==
    /\ command' = [command EXCEPT !.speeds = w]
    /\ UNCHANGED <<chain, bound, pools, worker, link, history>>

ShellStep ==
    \/ CmdCalculate
    \/ CalculateFails
    \/ CmdKinematics
    \/ \E w \in Speeds : CmdSetSpeeds(w)

-----------------------------------------------------------------------------
(* main of each core: step_pm_register, whose init handler, on the server, *)
(* waits for the endpoint with the registry's mutex held.                  *)

Register(core) ==
    /\ chain[core] = "none"
    /\ chain' = [chain EXCEPT ![core] = "init"]
    /\ UNCHANGED <<command, bound, pools, worker, link, history>>

\* Mutant of the next definition: the handler waits for nothing.
DoInitAtOnce(core) ==
    /\ chain[core] = "init"
    /\ chain' = [chain EXCEPT ![core] = "done"]
    /\ UNCHANGED <<command, bound, pools, worker, link, history>>

DoInit(core) ==
    /\ chain[core] = "init"
    /\ core = "server" => bound
    /\ chain' = [chain EXCEPT ![core] = "done"]
    /\ UNCHANGED <<command, bound, pools, worker, link, history>>

\* The remote has registered its endpoint, before its main runs, and says so.
Bind ==
    /\ ~bound
    /\ bound' = TRUE
    /\ UNCHANGED <<command, chain, pools, worker, link, history>>

-----------------------------------------------------------------------------
(* The endpoint callbacks.                                                 *)

Received(core) == Head(link[core])

\* Mutant of the next definition: the measurement is not put.
EndpointForget ==
    /\ link["remote"] # <<>>
    /\ HasRoom("remote")
    /\ sp_owner["remote"] \in {NULL, "endpoint"}
    /\ link' = [link EXCEPT !["remote"] = Tail(@)]
    /\ UNCHANGED <<command, chain, bound, pools, worker, history>>

\* The remote copies the message into a measurement and puts it.
EndpointPut ==
    /\ link["remote"] # <<>>
    /\ HasRoom("remote")
    /\ sp_owner["remote"] \in {NULL, "endpoint"}
    /\ queue' = [queue EXCEPT !["remote"] = Append(@, Received("remote"))]
    /\ link' = [link EXCEPT !["remote"] = Tail(@)]
    /\ UNCHANGED <<command, chain, bound, busy, sp_owner, worker, history>>

\* "Just ignore no memory effects"; the pool's mutex is kept.
EndpointDrop ==
    /\ link["remote"] # <<>>
    /\ ~HasRoom("remote")
    /\ sp_owner' = [sp_owner EXCEPT !["remote"] = "endpoint"]
    /\ lost' = lost \cup {Received("remote").id}
    /\ link' = [link EXCEPT !["remote"] = Tail(@)]
    /\ UNCHANGED <<command, chain, bound, queue, busy, worker, given, shown>>

\* The server copies the message into rx_payload and shows it.
EndpointShow ==
    /\ link["server"] # <<>>
    /\ shown' = Append(shown, Received("server"))
    /\ link' = [link EXCEPT !["server"] = Tail(@)]
    /\ UNCHANGED <<command, chain, bound, pools, worker, given, lost>>

EndpointStep == EndpointPut \/ EndpointDrop \/ EndpointShow

-----------------------------------------------------------------------------
(* The thread of the work queue of each core.                              *)

RegistryFree(core) == chain[core] # "init"

\* Mutant of the next definition: the newest is taken first.
TakeNewest(core) ==
    /\ worker[core] = "idle"
    /\ queue[core] # <<>>
    /\ busy' = [busy EXCEPT ![core] = queue[core][Len(queue[core])]]
    /\ queue' = [queue EXCEPT ![core] = SubSeq(@, 1, Len(@) - 1)]
    /\ worker' = [worker EXCEPT ![core] = "match"]
    /\ UNCHANGED <<command, chain, bound, sp_owner, link, history>>

Take(core) ==
    /\ worker[core] = "idle"
    /\ queue[core] # <<>>
    /\ busy' = [busy EXCEPT ![core] = Head(queue[core])]
    /\ queue' = [queue EXCEPT ![core] = Tail(@)]
    /\ worker' = [worker EXCEPT ![core] = "match"]
    /\ UNCHANGED <<command, chain, bound, sp_owner, link, history>>

\* The registry is empty: nothing is done with the measurement.
MatchNothing(core) ==
    /\ worker[core] = "match"
    /\ chain[core] = "none"
    /\ lost' = lost \cup {busy[core].id}
    /\ worker' = [worker EXCEPT ![core] = "finish"]
    /\ UNCHANGED <<command, chain, bound, pools, link, given, shown>>

MatchChain(core) ==
    /\ worker[core] = "match"
    /\ chain[core] = "done"
    /\ busy' = [busy EXCEPT ![core] =
           IF core = "server" THEN DirectKinematics(@) ELSE InverseKinematics(@)]
    /\ worker' = [worker EXCEPT ![core] = "send"]
    /\ UNCHANGED <<command, chain, bound, queue, sp_owner, link, history>>

Send(core) ==
    /\ worker[core] = "send"
    /\ Len(link[Other(core)]) < Buffers
    /\ link' = [link EXCEPT ![Other(core)] = Append(@, busy[core])]
    /\ worker' = [worker EXCEPT ![core] = "finish"]
    /\ UNCHANGED <<command, chain, bound, pools, history>>

\* rpmsg_service_send waits for a buffer, but not for ever; its result is
\* ignored.
SendFails(core) ==
    /\ worker[core] = "send"
    /\ Len(link[Other(core)]) = Buffers
    /\ lost' = lost \cup {busy[core].id}
    /\ worker' = [worker EXCEPT ![core] = "finish"]
    /\ UNCHANGED <<command, chain, bound, pools, link, given, shown>>

\* The rest of the registry is walked, and the measurement is given back.
Finish(core) ==
    /\ worker[core] = "finish"
    /\ RegistryFree(core)
    /\ sp_owner[core] = NULL
    /\ busy' = [busy EXCEPT ![core] = NULL]
    /\ worker' = [worker EXCEPT ![core] = "idle"]
    /\ UNCHANGED <<command, chain, bound, queue, sp_owner, link, history>>

WorkerStep(core) ==
    \/ Take(core)
    \/ MatchNothing(core)
    \/ MatchChain(core)
    \/ Send(core)
    \/ SendFails(core)
    \/ Finish(core)

Next ==
    \/ ShellStep
    \/ Bind
    \/ EndpointStep
    \/ \E core \in Cores : Register(core) \/ DoInit(core) \/ WorkerStep(core)

\* Each core runs its threads, and the remote core is there.
Spec ==
    /\ Init
    /\ [][Next]_vars
    /\ WF_vars(Bind)
    /\ WF_vars(EndpointPut \/ EndpointDrop)
    /\ WF_vars(EndpointShow)
    /\ \A core \in Cores :
          WF_vars(Register(core) \/ DoInit(core)) /\ WF_vars(WorkerStep(core))

-----------------------------------------------------------------------------
(* Properties.                                                             *)

\* Results are shown in the order of the commands and none twice, through two
\* work queues and two channels.
ResultsInOrder ==
    \A i, j \in 1 .. Len(shown) : i < j => shown[i].id < shown[j].id

\* A result is that of its own command, whatever was set on the shell since,
\* and its wheel speeds move the robot as the server has calculated it: as
\* fast ahead, and turning by the mean of the y axis, but not sideways.
WheelsMoveBody ==
    \A i \in 1 .. Len(shown) :
        LET c == given[shown[i].id]
            w == shown[i].joints
        IN  c.set =>
               /\ MeanX(w) = MeanX(c.speeds)
               /\ MeanY(w) = 0
               /\ (-w[1] + w[2] - w[3] + w[4]) \div 4 = MeanY(c.speeds)

\* No message is on its way to an endpoint that is not bound yet, although
\* commands are put and taken up before it is (kinematic_node.c: do_init).
SentWhenBound == \A core \in Cores : link[core] # <<>> => bound

\* Every command that was put is answered, unless a step that drops it ignores
\* that (no chain yet, no memory, no buffer), or a failed allocation has kept
\* the pool's mutex.
Answered ==
    \A id \in 1 .. MaxCommands :
        Len(given) = id ~>
            \/ \E i \in 1 .. Len(shown) : shown[i].id = id
            \/ id \in lost
            \/ \E core \in Cores : sp_owner[core] # NULL
=============================================================================
