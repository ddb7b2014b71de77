----------------------- MODULE RobotKinematicsProofs ------------------------
(***************************************************************************)
(* What holds of the mobile robot's two cores for every number of          *)
(* commands, size of the pools and of the channels, and all speeds: the    *)
(* results are in order, belong to their commands and move the robot as    *)
(* calculated, and nothing is sent to an endpoint that is not bound.       *)
(***************************************************************************)
EXTENDS RobotKinematics, SequenceTheorems, TLAPS

\* The types of what travels.
Speed == [1 .. 4 -> Int]
Body == [x : Int, y : Int, heading : Int \cup {NULL}]
Payload == [id : Nat, set : BOOLEAN, speeds : Speed,
            body : Body \cup {NULL}, joints : Speed \cup {NULL}]

\* The payload a core's work queue has in hand and has not passed on.
Held(core) ==
    IF worker[core] \in {"match", "send"} THEN <<busy[core]>> ELSE <<>>

\* The way of a command from the shell, stage 7, to the shell, stage 1.
StageNo == 1 .. 7

Stages ==
    [i \in StageNo |->
        CASE i = 1 -> shown
          [] i = 2 -> link["server"]
          [] i = 3 -> Held("remote")
          [] i = 4 -> queue["remote"]
          [] i = 5 -> link["remote"]
          [] i = 6 -> Held("server")
          [] i = 7 -> queue["server"]]

Pipeline == [StageNo -> Seq(Payload)]

\* Whatever is further on its way is older.
InOrder(s) ==
    \A i, j \in StageNo : \A k \in 1 .. Len(s[i]), l \in 1 .. Len(s[j]) :
        i < j \/ (i = j /\ k < l) => s[i][k].id < s[j][l].id

\* The head of stage k is passed on as x, to stage k - 1.
PassedOn(s, t, k, x) ==
    /\ s[k] # <<>> /\ x.id = Head(s[k]).id
    /\ t[k] = Tail(s[k])
    /\ t[k - 1] = Append(s[k - 1], x)
    /\ \A i \in StageNo \ {k, k - 1} : t[i] = s[i]

\* The head of stage k is dropped.
Dropped(s, t, k) ==
    /\ s[k] # <<>>
    /\ t[k] = Tail(s[k])
    /\ \A i \in StageNo \ {k} : t[i] = s[i]

-----------------------------------------------------------------------------
(* The invariant.                                                          *)

Command == [set : BOOLEAN, speeds : Speed]

Typed ==
    /\ command \in Command
    /\ given \in Seq(Command)
    /\ chain \in [Cores -> {"none", "init", "done"}]
    /\ bound \in BOOLEAN
    /\ queue \in [Cores -> Seq(Payload)]
    /\ link \in [Cores -> Seq(Payload)]
    /\ shown \in Seq(Payload)
    /\ worker \in [Cores -> {"idle", "match", "send", "finish"}]
    /\ busy \in [Cores -> Payload \cup {NULL}]
    /\ \A core \in Cores :
          worker[core] \in {"match", "send"} => busy[core] \in Payload

\* A payload is that of its command in g.
Faithful(g, p) ==
    p.id \in 1 .. Len(g) /\ p.set = g[p.id].set /\ p.speeds = g[p.id].speeds

\* The server has calculated the velocity, and the remote the wheel speeds.
Moved(p) ==
    /\ p.body \in Body
    /\ p.set => p.body.x = MeanX(p.speeds) /\ p.body.heading = MeanY(p.speeds)

Turned(p) ==
    LET x == MeanX(p.speeds)
        h == MeanY(p.speeds)
    IN  p.set => p.joints = <<x - h, x + h, x - h, x + h>>

\* What is true of a payload that has come to stage i.
Fit(g, i, p) ==
    Faithful(g, p) /\ (i <= 5 => Moved(p)) /\ (i <= 2 => Turned(p))

AllFit(g, s) ==
    \A i \in StageNo : \A k \in 1 .. Len(s[i]) : Fit(g, i, s[i][k])

\* Nothing has left the server before the endpoint was bound.
AllBound(b, s) == \A i \in 1 .. 5 : s[i] # <<>> => b

\* What a work queue is about to send, and that it may.
Sending ==
    /\ worker["server"] = "send" => bound /\ Fit(given, 5, busy["server"])
    /\ worker["remote"] = "send" => Fit(given, 2, busy["remote"])
    /\ chain["server"] = "done" => bound

IInv ==
    /\ Typed
    /\ InOrder(Stages)
    /\ AllFit(given, Stages)
    /\ AllBound(bound, Stages)
    /\ Sending

-----------------------------------------------------------------------------
(* Sequences in a pipeline.                                                *)

LEMMA TailIs ==
    ASSUME NEW q \in Seq(Payload), q # <<>>
    PROVE  /\ Tail(q) \in Seq(Payload)
           /\ Len(q) \in Nat \ {0}
           /\ Len(Tail(q)) = Len(q) - 1
           /\ Head(q) = q[1]
           /\ \A m \in 1 .. Len(Tail(q)) : Tail(q)[m] = q[m + 1]
    OBVIOUS

LEMMA AppendIs ==
    ASSUME NEW q \in Seq(Payload), NEW x \in Payload
    PROVE  /\ Append(q, x) \in Seq(Payload)
           /\ Len(q) \in Nat
           /\ Len(Append(q, x)) = Len(q) + 1
           /\ Append(q, x)[Len(q) + 1] = x
           /\ \A m \in 1 .. Len(q) : Append(q, x)[m] = q[m]
    OBVIOUS

LEMMA PassingKeepsOrder ==
    ASSUME NEW s \in Pipeline, NEW t \in Pipeline, InOrder(s),
           NEW k \in 2 .. 7, NEW x \in Payload, PassedOn(s, t, k, x)
    PROVE  InOrder(t)
<1>0. k \in StageNo /\ k - 1 \in StageNo
    BY DEF StageNo
<1>1. /\ k \in StageNo /\ k - 1 \in StageNo
      /\ s[k] \in Seq(Payload) /\ s[k - 1] \in Seq(Payload)
    BY <1>0 DEF Pipeline
<1>2. /\ Len(s[k]) \in Nat \ {0} /\ Len(t[k]) = Len(s[k]) - 1
      /\ \A m \in 1 .. Len(t[k]) : t[k][m] = s[k][m + 1]
      /\ x.id = s[k][1].id
    BY <1>1, TailIs DEF PassedOn
<1>3. /\ Len(s[k - 1]) \in Nat /\ Len(t[k - 1]) = Len(s[k - 1]) + 1
      /\ t[k - 1][Len(s[k - 1]) + 1] = x
      /\ \A m \in 1 .. Len(s[k - 1]) : t[k - 1][m] = s[k - 1][m]
    BY <1>1, AppendIs DEF PassedOn
<1>4. \A i \in StageNo \ {k, k - 1} : t[i] = s[i]
    BY DEF PassedOn
<1>5. \A i \in StageNo : Len(t[i]) \in Nat
    BY DEF Pipeline
<1> DEFINE Row(i, m) == IF i = k \/ (i = k - 1 /\ m = Len(t[k - 1])) THEN k ELSE i
           Col(i, m) == IF i = k THEN m + 1
                        ELSE IF i = k - 1 /\ m = Len(t[k - 1]) THEN 1
                        ELSE m
<1>6. ASSUME NEW i \in StageNo, NEW m \in 1 .. Len(t[i])
      PROVE  /\ Row(i, m) \in StageNo
             /\ Col(i, m) \in 1 .. Len(s[Row(i, m)])
             /\ t[i][m].id = s[Row(i, m)][Col(i, m)].id
    <2>1. CASE i = k
        BY <2>1, <1>1, <1>2, <1>6
    <2>2. CASE i = k - 1 /\ m = Len(t[k - 1])
        <3>1. Row(i, m) = k /\ Col(i, m) = 1
            BY <2>2
        <3>2. t[i][m] = x
            BY <2>2, <1>3
        <3> HIDE DEF Row, Col
        <3> QED BY <3>1, <3>2, <1>1, <1>2
    <2>3. CASE i = k - 1 /\ m # Len(t[k - 1])
        BY <2>3, <1>1, <1>3, <1>6
    <2>4. CASE i \notin {k, k - 1}
        BY <2>4, <1>4, <1>6
    <2> QED BY <2>1, <2>2, <2>3, <2>4
<1>7. ASSUME NEW i \in StageNo, NEW j \in StageNo,
             NEW m \in 1 .. Len(t[i]), NEW l \in 1 .. Len(t[j]),
             i < j \/ (i = j /\ m < l)
      PROVE  \/ Row(i, m) < Row(j, l)
             \/ Row(i, m) = Row(j, l) /\ Col(i, m) < Col(j, l)
    <2>1. PICK n \in Nat : n = Len(t[k - 1])
        BY <1>5, <1>1
    <2>2. /\ i \in Int /\ j \in Int /\ m \in Int /\ l \in Int
          /\ m >= 1 /\ l >= 1
          /\ i = k - 1 => m <= n
          /\ j = k - 1 => l <= n
        <3>1. /\ Len(t[i]) \in Nat /\ Len(t[j]) \in Nat
              /\ i = k - 1 => Len(t[i]) = n
              /\ j = k - 1 => Len(t[j]) = n
            BY <1>5, <2>1
        <3> QED BY <3>1 DEF StageNo
    <2>3. /\ Row(i, m) = IF i = k \/ (i = k - 1 /\ m = n) THEN k ELSE i
          /\ Col(i, m) = IF i = k THEN m + 1
                         ELSE IF i = k - 1 /\ m = n THEN 1 ELSE m
          /\ Row(j, l) = IF j = k \/ (j = k - 1 /\ l = n) THEN k ELSE j
          /\ Col(j, l) = IF j = k THEN l + 1
                         ELSE IF j = k - 1 /\ l = n THEN 1 ELSE l
        BY <2>1
    <2> HIDE DEF Row, Col
    <2> QED BY <1>7, <2>2, <2>3
<1> HIDE DEF Row, Col
<1>8. ASSUME NEW i \in StageNo, NEW j \in StageNo,
             NEW m \in 1 .. Len(t[i]), NEW l \in 1 .. Len(t[j]),
             i < j \/ (i = j /\ m < l)
      PROVE  t[i][m].id < t[j][l].id
    BY <1>6, <1>7, <1>8 DEF InOrder
<1> QED BY <1>8 DEF InOrder

LEMMA DroppingKeepsOrder ==
    ASSUME NEW s \in Pipeline, NEW t \in Pipeline, InOrder(s),
           NEW k \in StageNo, Dropped(s, t, k)
    PROVE  InOrder(t)
<1>1. s[k] \in Seq(Payload)
    BY DEF Pipeline
<1>2. /\ Len(s[k]) \in Nat \ {0} /\ Len(t[k]) = Len(s[k]) - 1
      /\ \A m \in 1 .. Len(t[k]) : t[k][m] = s[k][m + 1]
    BY <1>1, TailIs DEF Dropped
<1> DEFINE Col(i, m) == IF i = k THEN m + 1 ELSE m
<1>3. ASSUME NEW i \in StageNo, NEW m \in 1 .. Len(t[i])
      PROVE  /\ Col(i, m) \in 1 .. Len(s[i])
             /\ t[i][m] = s[i][Col(i, m)]
    <2>1. CASE i = k
        BY <2>1, <1>2, <1>3
    <2>2. CASE i # k
        BY <2>2, <1>3 DEF Dropped
    <2> QED BY <2>1, <2>2
<1>4. ASSUME NEW i \in StageNo, NEW j \in StageNo,
             NEW m \in 1 .. Len(t[i]), NEW l \in 1 .. Len(t[j]),
             i < j \/ (i = j /\ m < l)
      PROVE  i < j \/ (i = j /\ Col(i, m) < Col(j, l))
    <2>1. Len(t[i]) \in Nat /\ Len(t[j]) \in Nat
        BY DEF Pipeline
    <2>2. m \in Int /\ l \in Int
        BY <2>1
    <2> QED BY <1>4, <2>2
<1> HIDE DEF Col
<1>5. ASSUME NEW i \in StageNo, NEW j \in StageNo,
             NEW m \in 1 .. Len(t[i]), NEW l \in 1 .. Len(t[j]),
             i < j \/ (i = j /\ m < l)
      PROVE  t[i][m].id < t[j][l].id
    BY <1>3, <1>4, <1>5 DEF InOrder
<1> QED BY <1>5 DEF InOrder

\* A new payload at the end of the last stage is younger than all.
LEMMA AddingKeepsOrder ==
    ASSUME NEW s \in Pipeline, NEW t \in Pipeline, InOrder(s),
           NEW x \in Payload,
           \A i \in StageNo : \A k \in 1 .. Len(s[i]) : s[i][k].id < x.id,
           t[7] = Append(s[7], x),
           \A i \in StageNo \ {7} : t[i] = s[i]
    PROVE  InOrder(t)
<1>1. s[7] \in Seq(Payload) /\ 7 \in StageNo
    BY DEF Pipeline, StageNo
<1>2. /\ Len(s[7]) \in Nat /\ Len(t[7]) = Len(s[7]) + 1
      /\ t[7][Len(s[7]) + 1] = x
      /\ \A m \in 1 .. Len(s[7]) : t[7][m] = s[7][m]
    BY <1>1, AppendIs
<1>3. ASSUME NEW i \in StageNo, NEW m \in 1 .. Len(t[i])
      PROVE  \/ m \in 1 .. Len(s[i]) /\ t[i][m] = s[i][m]
             \/ i = 7 /\ m = Len(t[7]) /\ t[i][m] = x
    <2>1. CASE i = 7
        BY <2>1, <1>2, <1>3
    <2>2. CASE i # 7
        BY <2>2, <1>3
    <2> QED BY <2>1, <2>2
<1>4. ASSUME NEW i \in StageNo, NEW j \in StageNo,
             NEW m \in 1 .. Len(t[i]), NEW l \in 1 .. Len(t[j]),
             i < j \/ (i = j /\ m < l)
      PROVE  t[i][m].id < t[j][l].id
    <2>1. CASE i = 7 /\ m = Len(t[7])
        <3>1. Len(t[7]) \in Nat
            BY <1>2
        <3>2. j <= 7
            BY DEF StageNo
        <3>3. j = 7 /\ m < l /\ l \in 1 .. Len(t[7])
            BY <2>1, <1>4, <3>2 DEF StageNo
        <3> QED BY <2>1, <3>1, <3>3
    <2>2. CASE m \in 1 .. Len(s[i]) /\ t[i][m] = s[i][m]
        <3>1. CASE l \in 1 .. Len(s[j]) /\ t[j][l] = s[j][l]
            BY <2>2, <3>1, <1>4 DEF InOrder
        <3>2. CASE t[j][l] = x
            BY <2>2, <3>2
        <3> QED BY <1>3, <3>1, <3>2
    <2> QED BY <1>3, <2>1, <2>2
<1> QED BY <1>4 DEF InOrder

\* The one payload of stage k is calculated with and keeps its number.
LEMMA WorkingKeepsOrder ==
    ASSUME NEW s \in Pipeline, NEW t \in Pipeline, InOrder(s),
           NEW k \in StageNo, NEW x \in Payload, NEW y \in Payload,
           s[k] = <<x>>, t[k] = <<y>>, y.id = x.id,
           \A i \in StageNo \ {k} : t[i] = s[i]
    PROVE  InOrder(t)
<1>1. ASSUME NEW i \in StageNo, NEW m \in 1 .. Len(t[i])
      PROVE  m \in 1 .. Len(s[i]) /\ t[i][m].id = s[i][m].id
    <2>1. CASE i = k
        BY <2>1, <1>1
    <2>2. CASE i # k
        BY <2>2, <1>1
    <2> QED BY <2>1, <2>2
<1> QED BY <1>1 DEF InOrder

-----------------------------------------------------------------------------
(* The stages before and after a step.                                     *)

LEMMA StagesAre ==
    /\ Stages[1] = shown /\ Stages[2] = link["server"]
    /\ Stages[3] = Held("remote") /\ Stages[4] = queue["remote"]
    /\ Stages[5] = link["remote"] /\ Stages[6] = Held("server")
    /\ Stages[7] = queue["server"]
    BY DEF Stages, StageNo

LEMMA StagesAreNext ==
    /\ Stages'[1] = shown' /\ Stages'[2] = link'["server"]
    /\ Stages'[3] = Held("remote")' /\ Stages'[4] = queue'["remote"]
    /\ Stages'[5] = link'["remote"] /\ Stages'[6] = Held("server")'
    /\ Stages'[7] = queue'["server"]
    BY DEF Stages, StageNo

LEMMA HeldIs ==
    ASSUME Typed, NEW core \in Cores
    PROVE  Held(core) \in Seq(Payload)
    BY DEF Typed, Held

LEMMA StagesTyped ==
    ASSUME Typed
    PROVE  Stages \in Pipeline
<1>1. \A i \in StageNo : Stages[i] \in Seq(Payload)
    BY StagesAre, HeldIs DEF Typed, Cores, StageNo
<1> QED BY <1>1 DEF Pipeline, Stages

LEMMA HeldIsNext ==
    ASSUME Typed', NEW core \in Cores
    PROVE  Held(core)' \in Seq(Payload)
    BY DEF Typed, Held

LEMMA StagesTypedNext ==
    ASSUME Typed'
    PROVE  Stages' \in Pipeline
<1>1. \A i \in StageNo : Stages'[i] \in Seq(Payload)
    BY StagesAreNext, HeldIsNext DEF Typed, Cores, StageNo
<1> QED BY <1>1 DEF Pipeline, Stages

\* What holds of the stages when a payload is passed on, or dropped.
LEMMA Passing ==
    ASSUME IInv, Typed', UNCHANGED <<given, bound>>,
           NEW k \in 2 .. 7, NEW x \in Payload,
           PassedOn(Stages, Stages', k, x),
           Fit(given, k - 1, x), k = 6 => bound
    PROVE  /\ InOrder(Stages)'
           /\ AllFit(given, Stages)'
           /\ AllBound(bound, Stages)'
<1>1. Stages \in Pipeline /\ Stages' \in Pipeline
    BY StagesTyped, StagesTypedNext DEF IInv
<1>2. InOrder(Stages)'
    BY <1>1, PassingKeepsOrder DEF IInv
<1>3. k \in StageNo /\ k - 1 \in StageNo
    BY DEF StageNo
<1>4. Stages[k] \in Seq(Payload) /\ Stages[k - 1] \in Seq(Payload)
    BY <1>1, <1>3 DEF Pipeline
<1>5. AllFit(given, Stages)'
    <2>1. ASSUME NEW i \in StageNo, NEW m \in 1 .. Len(Stages'[i])
          PROVE  Fit(given, i, Stages'[i][m])
        <3>1. CASE i = k
            <4>1. /\ Len(Stages[k]) \in Nat \ {0}
                  /\ Len(Stages'[k]) = Len(Stages[k]) - 1
                  /\ \A n \in 1 .. Len(Stages'[k]) :
                        Stages'[k][n] = Stages[k][n + 1]
                BY <1>4, TailIs DEF PassedOn
            <4>2. m \in 1 .. Len(Stages'[k]) /\ m + 1 \in 1 .. Len(Stages[k])
                BY <3>1, <2>1, <4>1
            <4>3. Fit(given, k, Stages[k][m + 1])
                BY <1>3, <4>2 DEF IInv, AllFit
            <4> QED BY <3>1, <4>1, <4>2, <4>3
        <3>2. CASE i = k - 1
            <4> DEFINE n == Len(Stages[k - 1])
            <4>1. /\ n \in Nat /\ Len(Stages'[k - 1]) = n + 1
                  /\ Stages'[k - 1][n + 1] = x
                  /\ \A l \in 1 .. n : Stages'[k - 1][l] = Stages[k - 1][l]
                BY <1>4, AppendIs DEF PassedOn
            <4> HIDE DEF n
            <4>2. m \in 1 .. n \/ m = n + 1
                BY <3>2, <2>1, <4>1
            <4>3. ASSUME m \in 1 .. n PROVE Fit(given, k - 1, Stages[k - 1][m])
                BY <1>3, <4>3 DEF IInv, AllFit, n
            <4> QED BY <3>2, <4>1, <4>2, <4>3
        <3>3. CASE i \notin {k, k - 1}
            BY <3>3, <2>1 DEF PassedOn, IInv, AllFit
        <3> QED BY <3>1, <3>2, <3>3
    <2> QED BY <2>1 DEF AllFit
<1>6. AllBound(bound, Stages)'
    <2>1. ASSUME NEW i \in 1 .. 5, Stages'[i] # <<>>
          PROVE  bound
        <3>1. i \in StageNo
            BY DEF StageNo
        <3>2. CASE i = k - 1 /\ k = 6
            BY <3>2
        <3>3. CASE i = k - 1 /\ k \in 1 .. 5
            BY <3>3 DEF PassedOn, IInv, AllBound
        <3>4. CASE i = k
            BY <3>4 DEF PassedOn, IInv, AllBound
        <3>5. CASE i \notin {k, k - 1}
            BY <3>5, <3>1, <2>1 DEF PassedOn, IInv, AllBound
        <3>6. i = k - 1 => k = 6 \/ k \in 1 .. 5
            OBVIOUS
        <3> QED BY <3>2, <3>3, <3>4, <3>5, <3>6
    <2> QED BY <2>1 DEF AllBound
<1> QED BY <1>2, <1>5, <1>6

LEMMA Dropping ==
    ASSUME IInv, Typed', UNCHANGED <<given, bound>>,
           NEW k \in StageNo, Dropped(Stages, Stages', k)
    PROVE  /\ InOrder(Stages)'
           /\ AllFit(given, Stages)'
           /\ AllBound(bound, Stages)'
<1>1. Stages \in Pipeline /\ Stages' \in Pipeline
    BY StagesTyped, StagesTypedNext DEF IInv
<1>2. InOrder(Stages)'
    BY <1>1, DroppingKeepsOrder DEF IInv
<1>3. Stages[k] \in Seq(Payload)
    BY <1>1 DEF Pipeline
<1>4. AllFit(given, Stages)'
    <2>1. ASSUME NEW i \in StageNo, NEW m \in 1 .. Len(Stages'[i])
          PROVE  Fit(given, i, Stages'[i][m])
        <3>1. CASE i = k
            <4>1. /\ Len(Stages[k]) \in Nat \ {0}
                  /\ Len(Stages'[k]) = Len(Stages[k]) - 1
                  /\ \A n \in 1 .. Len(Stages'[k]) :
                        Stages'[k][n] = Stages[k][n + 1]
                BY <1>3, TailIs DEF Dropped
            <4>2. m \in 1 .. Len(Stages'[k]) /\ m + 1 \in 1 .. Len(Stages[k])
                BY <3>1, <2>1, <4>1
            <4>3. Fit(given, k, Stages[k][m + 1])
                BY <4>2 DEF IInv, AllFit
            <4> QED BY <3>1, <4>1, <4>2, <4>3
        <3>2. CASE i # k
            BY <3>2, <2>1 DEF Dropped, IInv, AllFit
        <3> QED BY <3>1, <3>2
    <2> QED BY <2>1 DEF AllFit
<1>5. AllBound(bound, Stages)'
    <2>1. ASSUME NEW i \in 1 .. 5, Stages'[i] # <<>>
          PROVE  bound
        <3>1. i \in StageNo
            BY DEF StageNo
        <3> QED BY <3>1, <2>1 DEF Dropped, IInv, AllBound
    <2> QED BY <2>1 DEF AllBound
<1> QED BY <1>2, <1>4, <1>5

\* A step that touches no stage.
LEMMA Resting ==
    ASSUME IInv, UNCHANGED <<given, Stages>>, bound => bound'
    PROVE  /\ InOrder(Stages)'
           /\ AllFit(given, Stages)'
           /\ AllBound(bound, Stages)'
    BY DEF IInv, AllBound

-----------------------------------------------------------------------------
(* The calculations.                                                       *)

LEMMA MeansAreInt ==
    ASSUME NEW w \in Speed
    PROVE  MeanX(w) \in Int /\ MeanY(w) \in Int
<1>1. w[1] \in Int /\ w[2] \in Int /\ w[3] \in Int /\ w[4] \in Int
    BY DEF Speed
<1> QED BY <1>1 DEF MeanX, MeanY

LEMMA DirectIs ==
    ASSUME NEW p \in Payload
    PROVE  /\ DirectKinematics(p) \in Payload
           /\ DirectKinematics(p).id = p.id
           /\ DirectKinematics(p).set = p.set
           /\ DirectKinematics(p).speeds = p.speeds
           /\ Moved(DirectKinematics(p))
<1>1. p.speeds \in Speed /\ p.set \in BOOLEAN
    BY DEF Payload
<1>2. MeanX(p.speeds) \in Int /\ MeanY(p.speeds) \in Int
    BY <1>1, MeansAreInt
<1> DEFINE b == IF p.set
        THEN [x |-> MeanX(p.speeds), y |-> MeanY(p.speeds),
              heading |-> MeanY(p.speeds)]
        ELSE [x |-> 0, y |-> 0, heading |-> NULL]
<1>3. /\ b \in Body
      /\ p.set => b.x = MeanX(p.speeds) /\ b.heading = MeanY(p.speeds)
    BY <1>2 DEF Body
<1>4. DirectKinematics(p) = [p EXCEPT !.body = b]
    BY DEF DirectKinematics
<1> HIDE DEF b
<1>5. /\ DirectKinematics(p) \in Payload
      /\ DirectKinematics(p).id = p.id
      /\ DirectKinematics(p).set = p.set
      /\ DirectKinematics(p).speeds = p.speeds
      /\ DirectKinematics(p).body = b
    BY <1>3, <1>4 DEF Payload
<1> QED BY <1>3, <1>5 DEF Moved

LEMMA InverseIs ==
    ASSUME NEW p \in Payload, Moved(p)
    PROVE  /\ InverseKinematics(p) \in Payload
           /\ InverseKinematics(p).id = p.id
           /\ InverseKinematics(p).set = p.set
           /\ InverseKinematics(p).speeds = p.speeds
           /\ Moved(InverseKinematics(p))
           /\ Turned(InverseKinematics(p))
<1>1. p.speeds \in Speed /\ p.set \in BOOLEAN /\ p.body \in Body
    BY DEF Payload, Moved
<1>2. MeanX(p.speeds) \in Int /\ MeanY(p.speeds) \in Int
    BY <1>1, MeansAreInt
<1> DEFINE b == [p.body EXCEPT !.y = 0]
           j == IF p.set THEN Joints(b) ELSE NULL
<1>3. /\ b \in Body /\ b.y = 0
      /\ b.x = p.body.x /\ b.heading = p.body.heading
    BY <1>1 DEF Body
<1> DEFINE x == MeanX(p.speeds)
           h == MeanY(p.speeds)
<1>4. p.set => b.x = x /\ b.heading = h
    BY <1>3 DEF Moved
<1>5. InverseKinematics(p) = [p EXCEPT !.body = b, !.joints = j]
    BY DEF InverseKinematics
<1>6. p.set => j = <<x - h, x + h, x - h, x + h>>
    <2> SUFFICES ASSUME p.set PROVE j = <<x - h, x + h, x - h, x + h>>
        OBVIOUS
    <2>1. j = <<b.x - b.y - b.heading, b.x + b.y + b.heading,
                b.x + b.y - b.heading, b.x - b.y + b.heading>>
        BY DEF Joints
    <2>2. /\ b.x - b.y - b.heading = x - h /\ b.x + b.y + b.heading = x + h
          /\ b.x + b.y - b.heading = x - h /\ b.x - b.y + b.heading = x + h
        BY <1>2, <1>3, <1>4
    <2> QED BY <2>1, <2>2
<1> HIDE DEF b
<1>7. j \in Speed \cup {NULL}
    <2>1. CASE p.set
        <3>1. x - h \in Int /\ x + h \in Int
            BY <1>2
        <3>2. <<x - h, x + h, x - h, x + h>> \in Speed
            BY <3>1 DEF Speed
        <3> QED BY <2>1, <1>6, <3>2
    <2>2. CASE ~p.set
        BY <2>2
    <2> QED BY <2>1, <2>2
<1> HIDE DEF j
<1>8. /\ InverseKinematics(p) \in Payload
      /\ InverseKinematics(p).id = p.id
      /\ InverseKinematics(p).set = p.set
      /\ InverseKinematics(p).speeds = p.speeds
      /\ InverseKinematics(p).body = b
      /\ InverseKinematics(p).joints = j
    BY <1>3, <1>5, <1>7 DEF Payload
<1>9. Moved(InverseKinematics(p))
    BY <1>3, <1>4, <1>8 DEF Moved
<1>10. Turned(InverseKinematics(p))
    BY <1>6, <1>8 DEF Turned
<1> QED BY <1>8, <1>9, <1>10

\* The wheel speeds of a payload that has been through both cores.
LEMMA WheelsMove ==
    ASSUME NEW p \in Payload, Turned(p), p.set
    PROVE  /\ MeanX(p.joints) = MeanX(p.speeds)
           /\ MeanY(p.joints) = 0
           /\ (-p.joints[1] + p.joints[2] - p.joints[3] + p.joints[4]) \div 4
                  = MeanY(p.speeds)
<1>1. p.speeds \in Speed
    BY DEF Payload
<1>2. PICK x \in Int, h \in Int :
          /\ x = MeanX(p.speeds) /\ h = MeanY(p.speeds)
          /\ p.joints = <<x - h, x + h, x - h, x + h>>
    BY <1>1, MeansAreInt DEF Turned
<1>3. /\ p.joints[1] = x - h /\ p.joints[2] = x + h
      /\ p.joints[3] = x - h /\ p.joints[4] = x + h
    BY <1>2
<1>4. /\ ((x - h) + (x + h) + (x - h) + (x + h)) \div 4 = x
      /\ (-(x - h) + (x + h) + (x - h) - (x + h)) \div 4 = 0
      /\ (-(x - h) + (x + h) - (x - h) + (x + h)) \div 4 = h
    OBVIOUS
<1> QED BY <1>2, <1>3, <1>4 DEF MeanX, MeanY

-----------------------------------------------------------------------------
(* What a stage holds, used by the steps that pass it on.                  *)

LEMMA HeadFits ==
    ASSUME IInv, NEW k \in StageNo, Stages[k] # <<>>
    PROVE  /\ Stages[k] \in Seq(Payload)
           /\ Head(Stages[k]) \in Payload
           /\ Fit(given, k, Head(Stages[k]))
<1>1. Stages[k] \in Seq(Payload)
    BY StagesTyped DEF IInv, Pipeline
<1>2. /\ Len(Stages[k]) \in Nat \ {0} /\ Head(Stages[k]) = Stages[k][1]
      /\ Head(Stages[k]) \in Payload
    BY <1>1, TailIs, HeadTailProperties
<1>3. 1 \in 1 .. Len(Stages[k])
    BY <1>2
<1> QED BY <1>1, <1>2, <1>3 DEF IInv, AllFit

LEMMA FitOn ==
    ASSUME NEW g, NEW p, NEW k \in {2, 4, 5, 7}, Fit(g, k, p)
    PROVE  Fit(g, k - 1, p)
    BY DEF Fit

\* A calculation changes nothing that ties a payload to its command.
LEMMA FaithfulOn ==
    ASSUME NEW g, NEW p, NEW q, Faithful(g, p),
           q.id = p.id, q.set = p.set, q.speeds = p.speeds
    PROVE  Faithful(g, q)
    BY DEF Faithful

LEMMA HeldCases ==
    ASSUME NEW core \in Cores
    PROVE  /\ worker[core] \in {"match", "send"} => Held(core) = <<busy[core]>>
           /\ worker[core] \notin {"match", "send"} => Held(core) = <<>>
           /\ worker'[core] \in {"match", "send"} =>
                 Held(core)' = <<busy'[core]>>
           /\ worker'[core] \notin {"match", "send"} => Held(core)' = <<>>
    BY DEF Held

LEMMA Singles ==
    /\ \A x : Head(<<x>>) = x /\ Tail(<<x>>) = <<>> /\ <<x>> # <<>>
    /\ \A x : Append(<<>>, x) = <<x>>
    OBVIOUS

\* The stages of the core that does not step.
LEMMA OtherHeld ==
    ASSUME NEW core \in Cores, worker'[core] = worker[core],
           busy'[core] = busy[core]
    PROVE  Held(core)' = Held(core)
    BY DEF Held

-----------------------------------------------------------------------------
(* The steps of a work queue.                                              *)

LEMMA TakeKeeps ==
    ASSUME IInv, NEW core \in Cores, Take(core)
    PROVE  IInv'
<1> DEFINE x == Head(queue[core])
<1>1. /\ queue[core] \in Seq(Payload) /\ queue[core] # <<>>
      /\ x \in Payload /\ Tail(queue[core]) \in Seq(Payload)
    BY HeadTailProperties DEF IInv, Typed, Take
<1>2. /\ queue' = [queue EXCEPT ![core] = Tail(@)]
      /\ busy' = [busy EXCEPT ![core] = x]
      /\ worker' = [worker EXCEPT ![core] = "match"]
      /\ worker[core] = "idle"
      /\ UNCHANGED <<command, chain, bound, link, given, shown>>
    BY DEF Take, history
<1> HIDE DEF x
<1>3. Typed'
    BY <1>1, <1>2 DEF IInv, Typed
<1>4. /\ worker'[core] = "match" /\ busy'[core] = x
      /\ queue'[core] = Tail(queue[core])
      /\ \A c \in Cores \ {core} : /\ worker'[c] = worker[c]
                                   /\ busy'[c] = busy[c]
                                   /\ queue'[c] = queue[c]
    BY <1>2 DEF IInv, Typed
<1>5. Held(core) = <<>> /\ Held(core)' = <<x>>
    BY <1>2, <1>4, HeldCases
<1>6. Sending'
    BY <1>2, <1>4 DEF IInv, Sending, Cores
<1>7. CASE core = "server"
    <2>1. "remote" \in Cores /\ Held("remote")' = Held("remote")
        BY <1>4, <1>7, OtherHeld DEF Cores
    <2>2. Stages'[6] = Append(Stages[6], x)
        BY <1>5, <1>7, Singles, StagesAre, StagesAreNext
    <2>3. PassedOn(Stages, Stages', 7, x)
        BY <2>1, <2>2, <1>1, <1>2, <1>4, <1>7, StagesAre, StagesAreNext
            DEF PassedOn, StageNo, x, Cores
    <2>4. Fit(given, 7, x)
        BY <1>1, <1>7, StagesAre, HeadFits DEF StageNo, x
    <2>5. Fit(given, 7 - 1, x)
        BY <2>4, FitOn
    <2> QED BY <1>1, <1>2, <1>3, <1>6, <2>3, <2>5, Passing DEF IInv
<1>8. CASE core = "remote"
    <2>1. "server" \in Cores /\ Held("server")' = Held("server")
        BY <1>4, <1>8, OtherHeld DEF Cores
    <2>2. Stages'[3] = Append(Stages[3], x)
        BY <1>5, <1>8, Singles, StagesAre, StagesAreNext
    <2>3. PassedOn(Stages, Stages', 4, x)
        BY <2>1, <2>2, <1>1, <1>2, <1>4, <1>8, StagesAre, StagesAreNext
            DEF PassedOn, StageNo, x, Cores
    <2>4. Fit(given, 4, x)
        BY <1>1, <1>8, StagesAre, HeadFits DEF StageNo, x
    <2>5. Fit(given, 4 - 1, x)
        BY <2>4, FitOn
    <2> QED BY <1>1, <1>2, <1>3, <1>6, <2>3, <2>5, Passing DEF IInv
<1> QED BY <1>7, <1>8 DEF Cores

\* The payload in hand is dropped, by MatchNothing or SendFails.
LEMMA GivingUpKeeps ==
    ASSUME IInv, NEW core \in Cores, MatchNothing(core) \/ SendFails(core)
    PROVE  IInv'
<1>1. /\ worker[core] \in {"match", "send"}
      /\ worker' = [worker EXCEPT ![core] = "finish"]
      /\ UNCHANGED <<command, chain, bound, queue, busy, link, given, shown>>
    BY DEF MatchNothing, SendFails, pools
<1>2. Typed'
    BY <1>1 DEF IInv, Typed
<1>3. /\ worker'[core] = "finish"
      /\ \A c \in Cores \ {core} : worker'[c] = worker[c]
    BY <1>1 DEF IInv, Typed
<1>4. Held(core) = <<busy[core]>> /\ Held(core)' = <<>>
    BY <1>1, <1>3, HeldCases
<1>5. \A c \in Cores \ {core} : Held(c)' = Held(c)
    BY <1>1, <1>3, OtherHeld
<1>6. Sending'
    BY <1>1, <1>3 DEF IInv, Sending, Cores
<1> DEFINE k == IF core = "server" THEN 6 ELSE 3
<1>7. k \in StageNo /\ Dropped(Stages, Stages', k)
    <2>1. CASE core = "server"
        <3>1. k = 6 /\ Held("remote")' = Held("remote")
            BY <2>1, <1>5 DEF Cores
        <3>2. Stages[6] = <<busy[core]>> /\ Stages'[6] = <<>>
            BY <2>1, <1>4, StagesAre, StagesAreNext
        <3>3. \A i \in StageNo \ {6} : Stages'[i] = Stages[i]
            BY <3>1, <1>1, StagesAre, StagesAreNext DEF StageNo
        <3>4. Dropped(Stages, Stages', 6)
            BY <3>2, <3>3, Singles, Zenon DEF Dropped
        <3> QED BY <3>1, <3>4 DEF StageNo
    <2>2. CASE core = "remote"
        <3>1. k = 3 /\ Held("server")' = Held("server")
            BY <2>2, <1>5 DEF Cores
        <3>2. Stages[3] = <<busy[core]>> /\ Stages'[3] = <<>>
            BY <2>2, <1>4, StagesAre, StagesAreNext
        <3>3. \A i \in StageNo \ {3} : Stages'[i] = Stages[i]
            BY <3>1, <1>1, StagesAre, StagesAreNext DEF StageNo
        <3>4. Dropped(Stages, Stages', 3)
            BY <3>2, <3>3, Singles, Zenon DEF Dropped
        <3> QED BY <3>1, <3>4 DEF StageNo
    <2> QED BY <2>1, <2>2 DEF Cores
<1> HIDE DEF k
<1> QED BY <1>1, <1>2, <1>6, <1>7, Dropping DEF IInv

LEMMA MatchChainKeeps ==
    ASSUME IInv, NEW core \in Cores, MatchChain(core)
    PROVE  IInv'
<1> DEFINE k == IF core = "server" THEN 6 ELSE 3
           x == busy[core]
           y == IF core = "server" THEN DirectKinematics(x)
                ELSE InverseKinematics(x)
<1>1. /\ worker[core] = "match" /\ chain[core] = "done"
      /\ busy' = [busy EXCEPT ![core] = y]
      /\ worker' = [worker EXCEPT ![core] = "send"]
      /\ UNCHANGED <<command, chain, bound, queue, link, given, shown>>
    BY DEF MatchChain, history
<1>2. x \in Payload
    BY <1>1 DEF IInv, Typed
<1>3. Held(core) = <<x>>
    BY <1>1, HeldCases
<1>4. k \in StageNo /\ Stages[k] = <<x>>
    BY <1>3, StagesAre DEF Cores, StageNo
<1>5. Fit(given, k, x)
    BY <1>4, HeadFits, Singles
<1>6. /\ y \in Payload /\ y.id = x.id
      /\ y.set = x.set /\ y.speeds = x.speeds
      /\ Fit(given, k, y)
      /\ core = "server" => Fit(given, 5, y)
      /\ core = "remote" => Fit(given, 2, y)
    <2>1. CASE core = "server"
        <3>1. k = 6 /\ y = DirectKinematics(x)
            BY <2>1
        <3>2. Faithful(given, y)
            BY <1>2, <1>5, <3>1, DirectIs, FaithfulOn DEF Fit
        <3> HIDE DEF k, y
        <3> QED BY <2>1, <1>2, <3>1, <3>2, DirectIs DEF Fit
    <2>2. CASE core = "remote"
        <3>1. k = 3 /\ y = InverseKinematics(x)
            BY <2>2
        <3>2. Faithful(given, x) /\ Moved(x)
            BY <1>5, <3>1 DEF Fit
        <3>3. Faithful(given, y)
            BY <1>2, <3>1, <3>2, InverseIs, FaithfulOn
        <3> HIDE DEF k, y
        <3> QED BY <2>2, <1>2, <3>1, <3>2, <3>3, InverseIs DEF Fit
    <2> QED BY <2>1, <2>2 DEF Cores
<1> HIDE DEF x, y
<1>7. Typed'
    BY <1>1, <1>6 DEF IInv, Typed
<1>8. /\ worker'[core] = "send" /\ busy'[core] = y
      /\ \A c \in Cores \ {core} :
            worker'[c] = worker[c] /\ busy'[c] = busy[c]
    BY <1>1 DEF IInv, Typed
<1>9. /\ Held(core)' = <<y>>
      /\ \A c \in Cores \ {core} : Held(c)' = Held(c)
    BY <1>8, HeldCases, OtherHeld
<1>10. Stages'[k] = <<y>> /\ \A i \in StageNo \ {k} : Stages'[i] = Stages[i]
    <2>1. CASE core = "server"
        BY <2>1, <1>1, <1>9, StagesAre, StagesAreNext DEF StageNo, Cores
    <2>2. CASE core = "remote"
        BY <2>2, <1>1, <1>9, StagesAre, StagesAreNext DEF StageNo, Cores
    <2> QED BY <2>1, <2>2 DEF Cores
<1>11. Sending'
    BY <1>1, <1>6, <1>8 DEF IInv, Sending, Cores
<1>12. k = 3 \/ k = 6
    OBVIOUS
<1> HIDE DEF k
<1>13. InOrder(Stages)'
    BY <1>2, <1>4, <1>6, <1>7, <1>10, StagesTyped, StagesTypedNext,
       WorkingKeepsOrder DEF IInv
<1>14. AllFit(given, Stages)'
    <2>1. ASSUME NEW i \in StageNo, NEW m \in 1 .. Len(Stages'[i])
          PROVE  Fit(given, i, Stages'[i][m])
        <3>1. CASE i = k
            <4>1. m = 1 /\ Stages'[i][m] = y
                BY <3>1, <2>1, <1>10
            <4> QED BY <3>1, <4>1, <1>6
        <3>2. CASE i # k
            BY <3>2, <2>1, <1>10 DEF IInv, AllFit
        <3> QED BY <3>1, <3>2
    <2> QED BY <2>1, <1>1 DEF AllFit
<1>15. AllBound(bound, Stages)'
    <2>1. ASSUME NEW i \in 1 .. 5, Stages'[i] # <<>>
          PROVE  bound
        <3>1. i \in StageNo
            BY DEF StageNo
        <3>2. Stages[i] # <<>>
            BY <3>1, <2>1, <1>4, <1>10, Singles
        <3> QED BY <3>2 DEF IInv, AllBound
    <2> QED BY <2>1, <1>1 DEF AllBound
<1> QED BY <1>7, <1>11, <1>13, <1>14, <1>15 DEF IInv

LEMMA SendKeeps ==
    ASSUME IInv, NEW core \in Cores, Send(core)
    PROVE  IInv'
<1> DEFINE k == IF core = "server" THEN 6 ELSE 3
           x == busy[core]
           o == Other(core)
<1>1. /\ worker[core] = "send"
      /\ link' = [link EXCEPT ![o] = Append(@, x)]
      /\ worker' = [worker EXCEPT ![core] = "finish"]
      /\ UNCHANGED <<command, chain, bound, queue, busy, given, shown>>
    BY DEF Send, pools, history
<1>2. x \in Payload /\ o \in Cores
    BY <1>1 DEF IInv, Typed, Other, Cores
<1>3. /\ Held(core) = <<x>>
      /\ k = 6 => bound
      /\ Fit(given, k - 1, x)
    BY <1>1, HeldCases DEF IInv, Sending, Cores
<1> HIDE DEF x
<1>4. link[o] \in Seq(Payload) /\ Append(link[o], x) \in Seq(Payload)
    BY <1>2, AppendIs DEF IInv, Typed
<1>5. Typed'
    BY <1>1, <1>2, <1>4 DEF IInv, Typed
<1>6. /\ worker'[core] = "finish"
      /\ link'[o] = Append(link[o], x)
      /\ \A c \in Cores \ {core} : worker'[c] = worker[c]
      /\ \A c \in Cores \ {o} : link'[c] = link[c]
    BY <1>1, <1>2 DEF IInv, Typed
<1>7. /\ Held(core)' = <<>>
      /\ \A c \in Cores \ {core} : Held(c)' = Held(c)
    BY <1>1, <1>6, HeldCases, OtherHeld
<1>8. Sending'
    BY <1>1, <1>6 DEF IInv, Sending, Cores
<1>9. k \in 2 .. 7 /\ PassedOn(Stages, Stages', k, x)
    <2>1. CASE core = "server"
        <3>1. o = "remote" /\ k = 6
            BY <2>1 DEF Other
        <3>2. Held("remote")' = Held("remote") /\ link'["server"] = link["server"]
            BY <2>1, <3>1, <1>6, <1>7 DEF Cores
        <3> HIDE DEF o
        <3>3. Stages[6] = <<x>> /\ Stages'[6] = <<>>
            BY <2>1, <1>3, <1>7, StagesAre, StagesAreNext
        <3>4. Stages'[6 - 1] = Append(Stages[6 - 1], x)
            BY <3>1, <1>6, StagesAre, StagesAreNext
        <3>5. \A i \in StageNo \ {6, 6 - 1} : Stages'[i] = Stages[i]
            BY <3>2, <1>1, StagesAre, StagesAreNext DEF StageNo
        <3>6. PassedOn(Stages, Stages', 6, x)
            BY <3>3, <3>4, <3>5, Singles, Zenon DEF PassedOn
        <3> QED BY <3>1, <3>6
    <2>2. CASE core = "remote"
        <3>1. o = "server" /\ k = 3
            BY <2>2 DEF Other
        <3>2. Held("server")' = Held("server") /\ link'["remote"] = link["remote"]
            BY <2>2, <3>1, <1>6, <1>7 DEF Cores
        <3> HIDE DEF o
        <3>3. Stages[3] = <<x>> /\ Stages'[3] = <<>>
            BY <2>2, <1>3, <1>7, StagesAre, StagesAreNext
        <3>4. Stages'[3 - 1] = Append(Stages[3 - 1], x)
            BY <3>1, <1>6, StagesAre, StagesAreNext
        <3>5. \A i \in StageNo \ {3, 3 - 1} : Stages'[i] = Stages[i]
            BY <3>2, <1>1, StagesAre, StagesAreNext DEF StageNo
        <3>6. PassedOn(Stages, Stages', 3, x)
            BY <3>3, <3>4, <3>5, Singles, Zenon DEF PassedOn
        <3> QED BY <3>1, <3>6
    <2> QED BY <2>1, <2>2 DEF Cores
<1> HIDE DEF k
<1> QED BY <1>1, <1>2, <1>3, <1>5, <1>8, <1>9, Passing DEF IInv

LEMMA FinishKeeps ==
    ASSUME IInv, NEW core \in Cores, Finish(core)
    PROVE  IInv'
<1>1. /\ worker[core] = "finish"
      /\ busy' = [busy EXCEPT ![core] = NULL]
      /\ worker' = [worker EXCEPT ![core] = "idle"]
      /\ UNCHANGED <<command, chain, bound, queue, link, given, shown>>
    BY DEF Finish, history
<1>2. Typed'
    BY <1>1 DEF IInv, Typed
<1>3. /\ worker'[core] = "idle"
      /\ \A c \in Cores \ {core} :
            worker'[c] = worker[c] /\ busy'[c] = busy[c]
    BY <1>1 DEF IInv, Typed
<1>4. \A c \in Cores : Held(c)' = Held(c)
    BY <1>1, <1>3, HeldCases, OtherHeld
<1>5. UNCHANGED Stages
    BY <1>1, <1>4 DEF Stages, Cores
<1>6. Sending'
    BY <1>1, <1>3 DEF IInv, Sending, Cores
<1> QED BY <1>1, <1>2, <1>5, <1>6, Resting DEF IInv

-----------------------------------------------------------------------------
(* The steps of the endpoints.                                             *)

\* Steps that leave the work queues alone leave what they hold.
LEMMA SameHeld ==
    ASSUME UNCHANGED <<worker, busy>>
    PROVE  Held("server")' = Held("server") /\ Held("remote")' = Held("remote")
    BY DEF Held

LEMMA SameSending ==
    ASSUME IInv, UNCHANGED <<worker, busy, given, bound, chain>>
    PROVE  Sending'
    BY DEF IInv, Sending

LEMMA ReceivedIs ==
    ASSUME IInv, NEW core \in Cores, link[core] # <<>>
    PROVE  /\ link[core] \in Seq(Payload)
           /\ Received(core) = Head(link[core])
           /\ Received(core) \in Payload
           /\ Tail(link[core]) \in Seq(Payload)
    BY HeadTailProperties DEF IInv, Typed, Received

LEMMA EndpointPutKeeps ==
    ASSUME IInv, EndpointPut
    PROVE  IInv'
<1> DEFINE x == Received("remote")
<1>1. /\ link["remote"] # <<>> /\ "remote" \in Cores
      /\ queue' = [queue EXCEPT !["remote"] = Append(@, x)]
      /\ link' = [link EXCEPT !["remote"] = Tail(@)]
      /\ UNCHANGED <<command, chain, bound, busy, worker, given, shown>>
    BY DEF EndpointPut, history, Cores
<1>2. /\ x = Head(link["remote"]) /\ x \in Payload
      /\ Tail(link["remote"]) \in Seq(Payload)
    BY <1>1, ReceivedIs
<1> HIDE DEF x
<1>3. /\ queue["remote"] \in Seq(Payload)
      /\ Append(queue["remote"], x) \in Seq(Payload)
    BY <1>1, <1>2, AppendIs DEF IInv, Typed
<1>4. Typed'
    BY <1>1, <1>2, <1>3 DEF IInv, Typed
<1>5. /\ queue'["remote"] = Append(queue["remote"], x)
      /\ queue'["server"] = queue["server"]
      /\ link'["remote"] = Tail(link["remote"])
      /\ link'["server"] = link["server"]
    BY <1>1 DEF IInv, Typed, Cores
<1>6. Stages[5] # <<>> /\ x = Head(Stages[5]) /\ Stages'[5] = Tail(Stages[5])
    BY <1>1, <1>2, <1>5, StagesAre, StagesAreNext
<1>7. Stages'[5 - 1] = Append(Stages[5 - 1], x)
    BY <1>5, StagesAre, StagesAreNext
<1>8. \A i \in StageNo \ {5, 5 - 1} : Stages'[i] = Stages[i]
    BY <1>1, <1>5, SameHeld, StagesAre, StagesAreNext DEF StageNo
<1>9. PassedOn(Stages, Stages', 5, x)
    BY <1>6, <1>7, <1>8, Zenon DEF PassedOn
<1>10. Fit(given, 5 - 1, x)
    BY <1>6, HeadFits, FitOn DEF StageNo
<1> QED BY <1>1, <1>2, <1>4, <1>9, <1>10, Passing, SameSending DEF IInv

LEMMA EndpointDropKeeps ==
    ASSUME IInv, EndpointDrop
    PROVE  IInv'
<1>1. /\ link["remote"] # <<>> /\ "remote" \in Cores
      /\ link' = [link EXCEPT !["remote"] = Tail(@)]
      /\ UNCHANGED <<command, chain, bound, queue, busy, worker, given, shown>>
    BY DEF EndpointDrop, Cores
<1>2. Tail(link["remote"]) \in Seq(Payload)
    BY <1>1, ReceivedIs
<1>3. Typed'
    BY <1>1, <1>2 DEF IInv, Typed
<1>4. /\ link'["remote"] = Tail(link["remote"])
      /\ link'["server"] = link["server"]
    BY <1>1 DEF IInv, Typed, Cores
<1>5. Stages[5] # <<>> /\ Stages'[5] = Tail(Stages[5])
    BY <1>1, <1>4, StagesAre, StagesAreNext
<1>6. \A i \in StageNo \ {5} : Stages'[i] = Stages[i]
    BY <1>1, <1>4, SameHeld, StagesAre, StagesAreNext DEF StageNo
<1>7. Dropped(Stages, Stages', 5) /\ 5 \in StageNo
    BY <1>5, <1>6 DEF Dropped, StageNo
<1> QED BY <1>1, <1>3, <1>7, Dropping, SameSending DEF IInv

LEMMA EndpointShowKeeps ==
    ASSUME IInv, EndpointShow
    PROVE  IInv'
<1> DEFINE x == Received("server")
<1>1. /\ link["server"] # <<>> /\ "server" \in Cores
      /\ shown' = Append(shown, x)
      /\ link' = [link EXCEPT !["server"] = Tail(@)]
      /\ UNCHANGED <<command, chain, bound, queue, busy, worker, given>>
    BY DEF EndpointShow, pools, Cores
<1>2. /\ x = Head(link["server"]) /\ x \in Payload
      /\ Tail(link["server"]) \in Seq(Payload)
    BY <1>1, ReceivedIs
<1> HIDE DEF x
<1>3. shown \in Seq(Payload) /\ Append(shown, x) \in Seq(Payload)
    BY <1>2, AppendIs DEF IInv, Typed
<1>4. Typed'
    BY <1>1, <1>2, <1>3 DEF IInv, Typed
<1>5. /\ link'["server"] = Tail(link["server"])
      /\ link'["remote"] = link["remote"]
    BY <1>1 DEF IInv, Typed, Cores
<1>6. Stages[2] # <<>> /\ x = Head(Stages[2]) /\ Stages'[2] = Tail(Stages[2])
    BY <1>1, <1>2, <1>5, StagesAre, StagesAreNext
<1>7. Stages'[2 - 1] = Append(Stages[2 - 1], x)
    BY <1>1, StagesAre, StagesAreNext
<1>8. \A i \in StageNo \ {2, 2 - 1} : Stages'[i] = Stages[i]
    BY <1>1, <1>5, SameHeld, StagesAre, StagesAreNext DEF StageNo
<1>9. PassedOn(Stages, Stages', 2, x)
    BY <1>6, <1>7, <1>8, Zenon DEF PassedOn
<1>10. Fit(given, 2 - 1, x)
    BY <1>6, HeadFits, FitOn DEF StageNo
<1> QED BY <1>1, <1>2, <1>4, <1>9, <1>10, Passing, SameSending DEF IInv

-----------------------------------------------------------------------------
(* The shell, and main of each core.                                       *)

\* A new command is younger than all, and changes none of the others.
LEMMA CmdCalculateKeeps ==
    ASSUME IInv, CmdCalculate
    PROVE  IInv'
<1> DEFINE x == [id |-> Len(given) + 1, set |-> command.set,
                 speeds |-> command.speeds, body |-> NULL, joints |-> NULL]
<1>1. /\ queue' = [queue EXCEPT !["server"] = Append(@, x)]
      /\ given' = Append(given, command)
      /\ UNCHANGED <<command, chain, bound, busy, worker, link, shown>>
    BY DEF CmdCalculate
<1>2. /\ given \in Seq(Command) /\ command \in Command
      /\ Len(given) \in Nat
      /\ x \in Payload /\ x.id = Len(given) + 1
      /\ x.set = command.set /\ x.speeds = command.speeds
    BY DEF IInv, Typed, Payload, Command
<1> HIDE DEF x
<1>3. /\ Len(given') = Len(given) + 1
      /\ given'[Len(given) + 1] = command
      /\ \A n \in 1 .. Len(given) : given'[n] = given[n]
      /\ given' \in Seq(Command)
    BY <1>1, <1>2
<1>4. "server" \in Cores /\ queue["server"] \in Seq(Payload)
    BY DEF IInv, Typed, Cores
<1>5. Append(queue["server"], x) \in Seq(Payload)
    BY <1>2, <1>4, AppendIs
<1>6. Typed'
    BY <1>1, <1>3, <1>5 DEF IInv, Typed
<1>7. /\ queue'["server"] = Append(queue["server"], x)
      /\ queue'["remote"] = queue["remote"]
    BY <1>1 DEF IInv, Typed, Cores
<1>8. /\ Stages'[7] = Append(Stages[7], x)
      /\ \A i \in StageNo \ {7} : Stages'[i] = Stages[i]
    BY <1>1, <1>7, SameHeld, StagesAre, StagesAreNext DEF StageNo
<1>9. Stages \in Pipeline /\ Stages' \in Pipeline
    BY <1>6, StagesTyped, StagesTypedNext DEF IInv
<1>10. ASSUME NEW i \in StageNo, NEW m \in 1 .. Len(Stages[i])
       PROVE  Stages[i][m].id \in 1 .. Len(given)
    BY <1>10 DEF IInv, AllFit, Fit, Faithful
<1>11. \A i \in StageNo : \A m \in 1 .. Len(Stages[i]) :
          Stages[i][m].id < x.id
    BY <1>2, <1>10
<1>12. InOrder(Stages)'
    BY <1>2, <1>8, <1>9, <1>11, AddingKeepsOrder DEF IInv
<1>13. ASSUME NEW i, NEW p, Fit(given, i, p) PROVE Fit(given', i, p)
    BY <1>2, <1>3, <1>13 DEF Fit, Faithful
<1>14. Fit(given', 7, x)
    BY <1>2, <1>3 DEF Fit, Faithful
<1>15. AllFit(given, Stages)'
    <2>1. ASSUME NEW i \in StageNo, NEW m \in 1 .. Len(Stages'[i])
          PROVE  Fit(given', i, Stages'[i][m])
        <3>1. CASE i = 7
            <4>1. Stages[7] \in Seq(Payload) /\ 7 \in StageNo
                BY <1>9 DEF Pipeline, StageNo
            <4> DEFINE n == Len(Stages[7])
            <4>2. /\ n \in Nat /\ Len(Stages'[7]) = n + 1
                  /\ Stages'[7][n + 1] = x
                  /\ \A l \in 1 .. n : Stages'[7][l] = Stages[7][l]
                BY <1>2, <1>8, <4>1, AppendIs
            <4> HIDE DEF n
            <4>3. m \in 1 .. n \/ m = n + 1
                BY <3>1, <2>1, <4>2
            <4>4. ASSUME m \in 1 .. n PROVE Fit(given', 7, Stages[7][m])
                BY <1>13, <4>1, <4>4 DEF IInv, AllFit, n
            <4> QED BY <3>1, <1>14, <4>2, <4>3, <4>4
        <3>2. CASE i # 7
            BY <3>2, <2>1, <1>8, <1>13 DEF IInv, AllFit
        <3> QED BY <3>1, <3>2
    <2> QED BY <2>1 DEF AllFit
<1>16. AllBound(bound, Stages)'
    <2>1. \A i \in 1 .. 5 : Stages'[i] = Stages[i]
        BY <1>8 DEF StageNo
    <2> QED BY <2>1, <1>1 DEF IInv, AllBound
<1>17. Sending'
    BY <1>1, <1>13 DEF IInv, Sending
<1> QED BY <1>6, <1>12, <1>15, <1>16, <1>17 DEF IInv

\* Steps of the shell and of main that touch no payload.
LEMMA QuietKeeps ==
    ASSUME IInv,
           \/ CalculateFails \/ CmdKinematics \/ Bind
           \/ \E w \in Speeds : CmdSetSpeeds(w)
           \/ \E core \in Cores : Register(core) \/ DoInit(core)
    PROVE  IInv'
<1>1. UNCHANGED <<queue, busy, worker, link, given, shown>>
    BY DEF CalculateFails, CmdKinematics, Bind, CmdSetSpeeds, Register, DoInit,
           pools, history
<1>2. /\ command' \in Command
      /\ bound' \in BOOLEAN /\ (bound => bound')
      /\ chain' \in [Cores -> {"none", "init", "done"}]
      /\ chain'["server"] = "done" => bound'
    <2>0. /\ command \in Command /\ bound \in BOOLEAN
          /\ chain \in [Cores -> {"none", "init", "done"}]
          /\ chain["server"] = "done" => bound
        BY DEF IInv, Typed, Sending
    <2>1. CASE CalculateFails \/ CmdKinematics
        BY <2>0, <2>1 DEF CalculateFails, CmdKinematics, Command
    <2>2. CASE Bind
        BY <2>0, <2>2 DEF Bind
    <2>3. ASSUME NEW w \in Speeds, CmdSetSpeeds(w)
          PROVE  /\ command' \in Command
                 /\ UNCHANGED <<chain, bound>>
        BY <2>0, <2>3, RobotAssumption DEF CmdSetSpeeds, Command, Speed
    <2>4. ASSUME NEW core \in Cores, Register(core)
          PROVE  /\ UNCHANGED <<command, bound>>
                 /\ chain' \in [Cores -> {"none", "init", "done"}]
                 /\ chain'["server"] = "done" => chain["server"] = "done"
        BY <2>0, <2>4 DEF Register, Cores
    <2>5. ASSUME NEW core \in Cores, DoInit(core)
          PROVE  /\ UNCHANGED <<command, bound>>
                 /\ chain' \in [Cores -> {"none", "init", "done"}]
                 /\ chain'["server"] = "done" => bound
        BY <2>0, <2>5 DEF DoInit, Cores
    <2> QED BY <2>0, <2>1, <2>2, <2>3, <2>4, <2>5
<1>3. Typed'
    BY <1>1, <1>2 DEF IInv, Typed
<1>4. UNCHANGED Stages
    BY <1>1 DEF Stages, Held
<1>5. Sending'
    BY <1>1, <1>2 DEF IInv, Sending
<1> QED BY <1>1, <1>2, <1>3, <1>4, <1>5, Resting DEF IInv

-----------------------------------------------------------------------------
(* The theorem.                                                            *)

LEMMA InitEstablishes == Init => IInv
<1> SUFFICES ASSUME Init PROVE IInv
    OBVIOUS
<1>1. <<0, 0, 0, 0>> \in Speed /\ <<>> \in Seq(Payload) /\ <<>> \in Seq(Command)
    BY DEF Speed
<1>2. Typed
    BY <1>1 DEF Init, Typed, Command, Cores
<1>3. \A core \in Cores : Held(core) = <<>>
    BY DEF Init, Held
<1>4. \A i \in StageNo : Stages[i] = <<>>
    BY <1>3, StagesAre DEF Init, StageNo, Cores
<1>5. \A i \in StageNo : Len(Stages[i]) = 0
    BY <1>4
<1>6. InOrder(Stages) /\ AllFit(given, Stages)
    BY <1>5 DEF InOrder, AllFit
<1>7. AllBound(bound, Stages)
    BY <1>4 DEF AllBound, StageNo
<1>8. Sending
    BY DEF Init, Sending, Cores
<1> QED BY <1>2, <1>6, <1>7, <1>8 DEF IInv

LEMMA NextKeeps == IInv /\ [Next]_vars => IInv'
<1> SUFFICES ASSUME IInv, [Next]_vars PROVE IInv'
    OBVIOUS
<1>1. CASE ShellStep
    BY <1>1, CmdCalculateKeeps, QuietKeeps DEF ShellStep
<1>2. CASE Bind
    BY <1>2, QuietKeeps
<1>3. CASE EndpointStep
    BY <1>3, EndpointPutKeeps, EndpointDropKeeps, EndpointShowKeeps
        DEF EndpointStep
<1>4. ASSUME NEW core \in Cores, Register(core) \/ DoInit(core) PROVE IInv'
    BY <1>4, QuietKeeps
<1>5. ASSUME NEW core \in Cores, WorkerStep(core) PROVE IInv'
    BY <1>5, TakeKeeps, GivingUpKeeps, MatchChainKeeps, SendKeeps, FinishKeeps
        DEF WorkerStep
<1>6. CASE UNCHANGED vars
    <2>1. UNCHANGED <<command, chain, bound, queue, busy, worker, link, given,
                      shown>>
        BY <1>6 DEF vars, pools, history
    <2>2. Typed' /\ UNCHANGED Stages /\ Sending'
        BY <2>1 DEF IInv, Typed, Stages, Held, Sending
    <2> QED BY <2>1, <2>2, Resting DEF IInv
<1> QED BY <1>1, <1>2, <1>3, <1>4, <1>5, <1>6 DEF Next

\* However many commands are put, however small pools and channels are and
\* whatever the speeds: results come in the order of the commands and belong to
\* them, the wheel speeds move the robot as the server has calculated, and
\* nothing is sent to an endpoint that is not bound.
THEOREM RobotSafe ==
    Spec => [](ResultsInOrder /\ WheelsMoveBody /\ SentWhenBound)
<1>1. IInv => ResultsInOrder /\ WheelsMoveBody /\ SentWhenBound
    <2> SUFFICES ASSUME IInv
                 PROVE  ResultsInOrder /\ WheelsMoveBody /\ SentWhenBound
        OBVIOUS
    <2>1. /\ 1 \in StageNo /\ Stages[1] = shown
          /\ shown \in Seq(Payload) /\ Len(shown) \in Nat
        BY StagesAre DEF StageNo, IInv, Typed
    <2>2. ResultsInOrder
        BY <2>1 DEF ResultsInOrder, IInv, InOrder
    <2>3. ASSUME NEW i \in 1 .. Len(shown)
          PROVE  /\ shown[i] \in Payload
                 /\ Faithful(given, shown[i]) /\ Turned(shown[i])
        BY <2>1, <2>3 DEF IInv, AllFit, Fit
    <2>4. WheelsMoveBody
        <3> SUFFICES ASSUME NEW i \in 1 .. Len(shown),
                            given[shown[i].id].set
                     PROVE  LET c == given[shown[i].id]
                                w == shown[i].joints
                            IN  /\ MeanX(w) = MeanX(c.speeds)
                                /\ MeanY(w) = 0
                                /\ (-w[1] + w[2] - w[3] + w[4]) \div 4
                                       = MeanY(c.speeds)
            BY DEF WheelsMoveBody
        <3>1. /\ shown[i].set
              /\ shown[i].speeds = given[shown[i].id].speeds
            BY <2>3 DEF Faithful
        <3> QED BY <2>3, <3>1, WheelsMove
    <2>5. SentWhenBound
        BY StagesAre DEF SentWhenBound, IInv, AllBound, StageNo, Cores
    <2> QED BY <2>2, <2>4, <2>5
<1> QED BY <1>1, InitEstablishes, NextKeeps, PTL DEF Spec

\* For all speeds and any number of commands: a result is that of its command,
\* and its wheel speeds move the robot as the server has calculated it, not
\* sideways (kinematic_node.c of both cores).
THEOREM WheelsMatchBody == Spec => []WheelsMoveBody
BY RobotSafe, PTL

\* However early commands are put: nothing is sent before the remote core has
\* bound its endpoint (kinematic_node.c: do_init).
THEOREM NothingBeforeBound == Spec => []SentWhenBound
BY RobotSafe, PTL
=============================================================================
