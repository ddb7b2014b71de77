------------------------- MODULE ImuProducerProofs --------------------------
(***************************************************************************)
(* What holds of the inertial sensor for every length of a calibration,    *)
(* every bias and any number of measurements, commands and samples.        *)
(***************************************************************************)
EXTENDS ImuProducer, SequenceTheorems, TLAPS

Places == {"start", "idle", "sum", "set", "fetch", "gyro", "mag", "produce",
           "put", "timer"}

Flags ==
    bridge \in BOOLEAN /\ calibrated \in BOOLEAN /\ overlapped \in BOOLEAN

Typed ==
    /\ owned \subseteq Meas /\ pending \in Seq(Meas) /\ busy \in Meas \cup {NULL}
    /\ payload \in [Meas -> Sample \cup {NULL}]
    /\ measurement \in Sample /\ result \in Sample
    /\ put \in [Meas -> Sample]
    /\ offset \in Int
    /\ pc \in [Calibrators -> Places]
    /\ sum \in [Calibrators -> [n : Nat, gyro : Int]]
    /\ worker \in {"idle", "process", "finish"}

NobodyCalibrates == \A p \in Calibrators : ~Calibrating(p)

\* The flag is what a calibration leaves behind, and while one runs alone it
\* reads the plain bias.
Calibration ==
    /\ pc["sampler"] # "start" /\ NobodyCalibrates => calibrated
    /\ ~overlapped =>
          /\ \A p, r \in Calibrators :
                Calibrating(p) /\ Calibrating(r) => p = r
          /\ \A p \in Calibrators : Calibrating(p) =>
                ~calibrated /\ sum[p].gyro = sum[p].n * Bias
          /\ \A p \in Calibrators : pc[p] = "set" => offset = Bias
          /\ calibrated => offset = Bias
          /\ offset \in {0, Bias}

\* The thread's struct is whole but while it is filled in, and the rotation is
\* the plain reading from when it is stored until it is corrected.
HalfFilled == pc["sampler"] \in {"gyro", "mag"}

Filling ==
    /\ measurement.acc = measurement.mag + (IF HalfFilled THEN 1 ELSE 0)
    /\ pc["sampler"] = "mag" => measurement.gyro = Bias

\* A sample that is what the property of processed samples says.
Right(s) ==
    /\ s.gyro \in {0, Bias}
    /\ s.settled /\ Whole(s) => s.gyro = 0

Corrected ==
    ~overlapped =>
        /\ Right(measurement) /\ Right(result)
        /\ \A m \in Meas : payload[m] # NULL => Right(payload[m])

\* Measurements that the application, the queue or the worker has.
InUse == owned \cup Flow!Waiting \cup {busy}

Carried ==
    /\ \A m \in Meas : put[m].mag <= measurement.mag
    /\ bridge => Whole(result)
    /\ \A m \in Meas : payload[m] # NULL => Whole(payload[m])
    /\ ~bridge => \A m \in Meas : payload[m] = NULL
    /\ bridge => \A m \in Meas \cap InUse : payload[m] = put[m]
    /\ worker # "idle" => busy # NULL

IInv ==
    /\ Flags /\ Typed /\ Calibration /\ Filling
    /\ Corrected /\ Carried /\ ProcessedAsPut

-----------------------------------------------------------------------------
(* Arithmetic of the calibration.                                          *)

LEMMA MeanOfBias == \A n \in Nat \ {0}, b \in Int : (n * b) \div n = b
    OBVIOUS

LEMMA SumOfBias == \A n \in Nat, b \in Int : n * b + b = (n + 1) * b
    OBVIOUS

LEMMA InitEstablishes == Init => IInv
<1> SUFFICES ASSUME Init PROVE IInv
    OBVIOUS
<1>1. Blank \in Sample /\ Right(Blank) /\ Whole(Blank) /\ Blank.mag = 0
    BY DEF Blank, Sample, Right, Whole
<1>2. /\ owned = {} /\ pending = <<>> /\ busy = NULL
      /\ bridge \in BOOLEAN
      /\ payload = [m \in Meas |-> NULL] /\ put = [m \in Meas |-> Blank]
      /\ measurement = Blank /\ result = Blank
      /\ calibrated = FALSE /\ overlapped = FALSE /\ offset = 0
      /\ worker = "idle"
    BY DEF Init, Flow!Init
<1>3. /\ pc \in [Calibrators -> Places]
      /\ pc["sampler"] = "start" /\ pc["shell"] = "idle"
      /\ sum \in [Calibrators -> [n : Nat, gyro : Int]]
    BY DEF Init, Calibrators, Places
<1>4. Typed
    BY <1>1, <1>2, <1>3 DEF Typed
<1>9. Flags
    BY <1>2, Zenon DEF Flags
<1>5. Calibration
    BY <1>2, <1>3 DEF Calibration, Calibrators, Calibrating
<1>6. Corrected
    BY <1>1, <1>2 DEF Corrected
<1>7. Carried
    <2>1. busy \notin Meas /\ owned = {} /\ Flow!Waiting = {}
        BY <1>2, ImuAssumption DEF Flow!Waiting
    <2>2. Meas \cap InUse = {}
        BY <2>1 DEF InUse
    <2> QED BY <1>1, <1>2, <2>2, ImuAssumption DEF Carried
<1>8. ProcessedAsPut
    BY <1>2 DEF ProcessedAsPut
<1>10. Filling
    BY <1>1, <1>2, <1>3 DEF Filling, HalfFilled, Whole
<1> QED BY <1>4, <1>5, <1>6, <1>7, <1>8, <1>9, <1>10, Zenon DEF IInv

-----------------------------------------------------------------------------
(* Parts of the invariant that a step leaves alone.                        *)

LEMMA SameCorrected ==
    ASSUME IInv, UNCHANGED <<payload, measurement, result>>,
           overlapped => overlapped'
    PROVE  Corrected'
    BY DEF IInv, Corrected

LEMMA SameCarried ==
    ASSUME IInv,
           UNCHANGED <<owned, pending, busy, payload, put, measurement, bridge,
                       worker, result>>
    PROVE  Carried'
    BY DEF IInv, Carried, InUse, Flow!Waiting

LEMMA SameProcessed ==
    ASSUME IInv, UNCHANGED <<busy, put, bridge, worker, result>>
    PROVE  ProcessedAsPut'
    BY DEF IInv, ProcessedAsPut

LEMMA SameFilling ==
    ASSUME IInv, UNCHANGED measurement,
           \/ pc'["sampler"] = pc["sampler"]
           \/ (~HalfFilled /\ ~HalfFilled')
    PROVE  Filling'
    BY DEF IInv, Filling, HalfFilled

\* pc changes between places outside of a calibration.
LEMMA SameCalibration ==
    ASSUME IInv, UNCHANGED <<calibrated, offset, sum, overlapped>>,
           \A p \in Calibrators : \/ pc'[p] = pc[p]
                                 \/ /\ pc[p] \notin {"start", "sum", "set"}
                                    /\ pc'[p] \notin {"start", "sum", "set"}
    PROVE  Calibration'
<1>1. \A p \in Calibrators :
          /\ Calibrating(p)' <=> Calibrating(p)
          /\ pc'[p] = "set" <=> pc[p] = "set"
          /\ pc'[p] = "start" <=> pc[p] = "start"
    BY DEF Calibrating
<1>2. "sampler" \in Calibrators
    BY DEF Calibrators
<1>3. NobodyCalibrates' <=> NobodyCalibrates
    BY <1>1 DEF NobodyCalibrates
<1> QED BY <1>1, <1>2, <1>3 DEF IInv, Calibration

-----------------------------------------------------------------------------
(* The steps of a calibration.                                             *)

LEMMA CalibrateStarts ==
    ASSUME IInv, NEW p \in Calibrators, Calibrate(p),
           pc[p] \in {"start", "idle"}
    PROVE  /\ Calibration' /\ (overlapped => overlapped')
           /\ offset' \in Int /\ pc' \in [Calibrators -> Places]
           /\ sum' \in [Calibrators -> [n : Nat, gyro : Int]]
           /\ pc'["sampler"] = pc["sampler"] \/ (~HalfFilled /\ ~HalfFilled')
<1>1. /\ calibrated' = FALSE
      /\ sum' = [sum EXCEPT ![p] = [n |-> 0, gyro |-> 0]]
      /\ pc' = [pc EXCEPT ![p] = "sum"]
      /\ offset' = offset
    BY DEF Calibrate
<1>2. overlapped' <=>
          (overlapped \/ \E r \in Calibrators \ {p} : Calibrating(r))
    BY Zenon DEF Calibrate
<1>3. /\ pc' \in [Calibrators -> Places]
      /\ sum' \in [Calibrators -> [n : Nat, gyro : Int]]
      /\ pc'[p] = "sum" /\ sum'[p].n = 0 /\ sum'[p].gyro = 0
      /\ \A r \in Calibrators \ {p} : pc'[r] = pc[r] /\ sum'[r] = sum[r]
    BY <1>1 DEF IInv, Typed, Places
<1>4. Calibrating(p)' /\ ~Calibrating(p)
    BY <1>3 DEF Calibrating
<1>5. ~NobodyCalibrates'
    BY <1>4 DEF NobodyCalibrates
<1>6. ASSUME ~overlapped'
      PROVE  /\ \A r \in Calibrators \ {p} : ~Calibrating(r)'
             /\ offset \in {0, Bias}
    <2>1. \A r \in Calibrators \ {p} : ~Calibrating(r)
        BY <1>2, <1>6
    <2>2. ~overlapped
        BY <1>2, <1>6
    <2> QED BY <1>3, <2>1, <2>2 DEF Calibrating, IInv, Calibration
<1>7. 0 = 0 * Bias
    BY ImuAssumption
<1>8. Calibration'
    <2>1. ASSUME ~overlapped'
          PROVE  /\ \A q, r \in Calibrators :
                       Calibrating(q)' /\ Calibrating(r)' => q = r
                 /\ \A q \in Calibrators : Calibrating(q)' =>
                       ~calibrated' /\ sum'[q].gyro = sum'[q].n * Bias
                 /\ \A q \in Calibrators : pc'[q] = "set" => offset' = Bias
                 /\ calibrated' => offset' = Bias
                 /\ offset' \in {0, Bias}
        <3>1. \A r \in Calibrators : Calibrating(r)' => r = p
            BY <1>6, <2>1
        <3>2. \A r \in Calibrators : pc'[r] = "set" => Calibrating(r)'
            BY DEF Calibrating
        <3> QED BY <3>1, <3>2, <1>1, <1>3, <1>6, <1>7, <2>1
    <2> QED BY <2>1, <1>5 DEF Calibration
<1>9. pc'["sampler"] = pc["sampler"] \/ (~HalfFilled /\ ~HalfFilled')
    BY <1>3 DEF HalfFilled, Calibrators
<1> QED BY <1>1, <1>2, <1>3, <1>8, <1>9 DEF IInv, Typed

LEMMA StartKeeps ==
    ASSUME IInv, StartSampling \/ CmdCalibrate
    PROVE  IInv'
<1> PICK p \in Calibrators : /\ Calibrate(p) /\ pc[p] \in {"start", "idle"}
                             /\ UNCHANGED <<flow, sampled, bridge, main, worker,
                                            sp_owner, stream, result>>
    BY DEF StartSampling, CmdCalibrate, Calibrators
<1>1. /\ Calibration' /\ (overlapped => overlapped')
      /\ offset' \in Int /\ pc' \in [Calibrators -> Places]
      /\ sum' \in [Calibrators -> [n : Nat, gyro : Int]]
      /\ pc'["sampler"] = pc["sampler"] \/ (~HalfFilled /\ ~HalfFilled')
    BY CalibrateStarts
<1>2. UNCHANGED <<owned, pending, busy, payload, measurement, put, bridge,
                  worker, result>>
    BY DEF flow, sampled
<1>3. Typed'
    BY <1>1, <1>2 DEF IInv, Typed
<1>4. calibrated' \in BOOLEAN /\ overlapped' \in BOOLEAN
    BY Zenon DEF Calibrate, IInv, Flags
<1>5. Flags'
    BY <1>2, <1>4, Zenon DEF IInv, Flags
<1>6. Corrected' /\ Carried' /\ ProcessedAsPut'
    BY <1>1, <1>2, SameCorrected, SameCarried, SameProcessed
<1>7. Filling'
    BY <1>1, <1>2, SameFilling
<1> QED BY <1>1, <1>3, <1>5, <1>6, <1>7, Zenon DEF IInv

LEMMA SumReadingKeeps ==
    ASSUME IInv, NEW p \in Calibrators, SumReading(p)
    PROVE  IInv'
<1>1. /\ pc[p] = "sum"
      /\ sum' = [sum EXCEPT ![p] = [n |-> @.n + 1, gyro |-> @.gyro + Reading]]
      /\ UNCHANGED <<owned, pending, busy, payload, measurement, put, bridge,
                     calibrated, offset, overlapped, pc, worker, result>>
    BY DEF SumReading, flow, sampled
<1>2. Reading \in Int /\ (~calibrated => Reading = Bias)
    BY ImuAssumption DEF Reading, IInv, Typed
<1>3. /\ sum[p] \in [n : Nat, gyro : Int]
      /\ sum'[p] = [n |-> sum[p].n + 1, gyro |-> sum[p].gyro + Reading]
      /\ \A r \in Calibrators \ {p} : sum'[r] = sum[r]
    BY <1>1 DEF IInv, Typed
<1>4. sum'[p] \in [n : Nat, gyro : Int]
    BY <1>2, <1>3
<1>5. Typed'
    BY <1>1, <1>4 DEF IInv, Typed
<1>6. Flags'
    BY <1>1, Zenon DEF IInv, Flags
<1>7. \A r \in Calibrators : Calibrating(r)' <=> Calibrating(r)
    BY <1>1 DEF Calibrating
<1>8. Calibrating(p)
    BY <1>1 DEF Calibrating
<1>9. ASSUME ~overlapped PROVE sum'[p].gyro = sum'[p].n * Bias
    <2>1. ~calibrated /\ sum[p].gyro = sum[p].n * Bias
        BY <1>8, <1>9 DEF IInv, Calibration
    <2>2. sum[p].n * Bias + Bias = (sum[p].n + 1) * Bias
        BY <1>3, SumOfBias, ImuAssumption
    <2> QED BY <1>2, <1>3, <2>1, <2>2
<1>10. Calibration'
    <2>1. NobodyCalibrates' <=> NobodyCalibrates
        BY <1>7 DEF NobodyCalibrates
    <2> QED BY <1>1, <1>3, <1>7, <1>9, <2>1 DEF IInv, Calibration
<1>11. Corrected' /\ Carried' /\ ProcessedAsPut'
    BY <1>1, SameCorrected, SameCarried, SameProcessed
<1>12. Filling'
    BY <1>1, SameFilling
<1> QED BY <1>5, <1>6, <1>10, <1>11, <1>12, Zenon DEF IInv

LEMMA CopyMeanKeeps ==
    ASSUME IInv, NEW p \in Calibrators, CopyMean(p)
    PROVE  IInv'
<1>1. /\ pc[p] = "sum" /\ sum[p].n = Fetches
      /\ offset' = sum[p].gyro \div Fetches
      /\ pc' = [pc EXCEPT ![p] = "set"]
      /\ UNCHANGED <<owned, pending, busy, payload, measurement, put, bridge,
                     calibrated, sum, overlapped, worker, result>>
    BY DEF CopyMean, flow, sampled
<1>2. sum[p].gyro \in Int
    BY DEF IInv, Typed
<1>3. offset' \in Int
    BY <1>1, <1>2, ImuAssumption
<1>4. /\ pc' \in [Calibrators -> Places] /\ pc'[p] = "set"
      /\ \A r \in Calibrators \ {p} : pc'[r] = pc[r]
    BY <1>1 DEF IInv, Typed, Places
<1>5. Typed'
    BY <1>1, <1>3, <1>4 DEF IInv, Typed
<1>6. Flags'
    BY <1>1, Zenon DEF IInv, Flags
<1>7. \A r \in Calibrators : Calibrating(r)' <=> Calibrating(r)
    BY <1>1, <1>4 DEF Calibrating
<1>8. Calibrating(p) /\ ~NobodyCalibrates'
    BY <1>1, <1>7 DEF Calibrating, NobodyCalibrates
<1>9. ASSUME ~overlapped PROVE offset' = Bias
    <2>1. sum[p].gyro = Fetches * Bias
        BY <1>1, <1>8, <1>9 DEF IInv, Calibration
    <2> QED BY <1>1, <2>1, MeanOfBias, ImuAssumption
<1>10. Calibration'
    BY <1>1, <1>7, <1>8, <1>9 DEF IInv, Calibration
<1>11. Corrected' /\ Carried' /\ ProcessedAsPut'
    BY <1>1, SameCorrected, SameCarried, SameProcessed
<1>12. Filling'
    BY <1>1, <1>4, SameFilling DEF HalfFilled, Calibrators
<1> QED BY <1>5, <1>6, <1>10, <1>11, <1>12, Zenon DEF IInv

LEMMA SetCalibratedKeeps ==
    ASSUME IInv, NEW p \in Calibrators, SetCalibrated(p)
    PROVE  IInv'
<1>1. /\ pc[p] = "set" /\ calibrated' = TRUE
      /\ pc' = [pc EXCEPT ![p] = IF p = "shell" THEN "idle" ELSE "fetch"]
      /\ UNCHANGED <<owned, pending, busy, payload, measurement, put, bridge,
                     offset, sum, overlapped, worker, result>>
    BY DEF SetCalibrated, flow, sampled
<1>2. /\ pc' \in [Calibrators -> Places] /\ pc'[p] \in {"idle", "fetch"}
      /\ \A r \in Calibrators \ {p} : pc'[r] = pc[r]
    BY <1>1 DEF IInv, Typed, Places
<1>3. Typed'
    BY <1>1, <1>2 DEF IInv, Typed
<1>4. Flags'
    BY <1>1, Zenon DEF IInv, Flags
<1>5. Calibrating(p) /\ ~Calibrating(p)'
    BY <1>1, <1>2 DEF Calibrating
<1>6. \A r \in Calibrators \ {p} : Calibrating(r)' <=> Calibrating(r)
    BY <1>2 DEF Calibrating
<1>7. ASSUME ~overlapped
      PROVE  (\A r \in Calibrators : ~Calibrating(r)') /\ offset = Bias
    BY <1>1, <1>5, <1>6, <1>7 DEF IInv, Calibration
<1>8. \A r \in Calibrators : pc'[r] = "set" => Calibrating(r)'
    BY DEF Calibrating
<1>9. Calibration'
    BY <1>1, <1>7, <1>8 DEF IInv, Calibration
<1>10. Corrected' /\ Carried' /\ ProcessedAsPut'
    BY <1>1, SameCorrected, SameCarried, SameProcessed
<1>11. Filling'
    BY <1>1, <1>2, SameFilling DEF HalfFilled, Calibrators
<1> QED BY <1>3, <1>4, <1>9, <1>10, <1>11, Zenon DEF IInv

-----------------------------------------------------------------------------
(* The way of a sample.                                                    *)

\* What the steps of a fetch leave alone.
LEMMA FetchElsewhere ==
    ASSUME IInv, FetchAccel \/ FetchGyro \/ FetchMag
    PROVE  /\ UNCHANGED <<owned, pending, busy, payload, put, bridge, calibrated,
                          offset, sum, overlapped, worker, result>>
           /\ pc' \in [Calibrators -> Places]
           /\ \A p \in Calibrators \ {"sampler"} : pc'[p] = pc[p]
           /\ Flags' /\ Calibration' /\ ProcessedAsPut'
<1>1. UNCHANGED <<owned, pending, busy, payload, put, bridge, calibrated,
                  offset, sum, overlapped, worker, result>>
    BY DEF FetchAccel, FetchGyro, FetchMag, flow, gyro
<1>2. /\ pc' \in [Calibrators -> Places]
      /\ \A p \in Calibrators \ {"sampler"} : pc'[p] = pc[p]
      /\ pc["sampler"] \notin {"start", "sum", "set"}
      /\ pc'["sampler"] \notin {"start", "sum", "set"}
    BY DEF FetchAccel, FetchGyro, FetchMag, IInv, Typed, Calibrators, Places
<1>3. Flags'
    BY <1>1, Zenon DEF IInv, Flags
<1>4. Calibration'
    BY <1>1, <1>2, SameCalibration
<1>5. ProcessedAsPut'
    BY <1>1, SameProcessed
<1> QED BY <1>1, <1>2, <1>3, <1>4, <1>5

LEMMA FetchAccelKeeps ==
    ASSUME IInv, FetchAccel
    PROVE  IInv'
<1>1. /\ UNCHANGED <<owned, pending, busy, payload, put, bridge, calibrated,
                     offset, sum, overlapped, worker, result>>
      /\ pc' \in [Calibrators -> Places]
      /\ Flags' /\ Calibration' /\ ProcessedAsPut'
    BY FetchElsewhere
<1>2. /\ pc["sampler"] = "fetch" /\ pc'["sampler"] = "gyro"
      /\ measurement' = [measurement EXCEPT !.acc = measurement.acc + 1]
    BY DEF FetchAccel, IInv, Typed, Calibrators
<1>3. /\ measurement \in Sample /\ measurement' \in Sample
      /\ measurement'.acc = measurement.acc + 1
      /\ measurement'.mag = measurement.mag
      /\ measurement'.gyro = measurement.gyro
    <2>1. measurement \in Sample /\ measurement.acc + 1 \in Nat
        BY DEF IInv, Typed, Sample
    <2> DEFINE n == measurement.acc + 1
    <2> HIDE DEF n
    <2>2. measurement' = [measurement EXCEPT !.acc = n] /\ n \in Nat
        BY <1>2, <2>1 DEF n
    <2> QED BY <2>1, <2>2 DEF Sample, n
<1>4. Typed'
    BY <1>1, <1>3 DEF IInv, Typed
<1>5. Filling'
    BY <1>2, <1>3 DEF IInv, Filling, HalfFilled, Sample
<1>6. Corrected'
    <2>1. measurement'.acc # measurement'.mag
        BY <1>2, <1>3 DEF IInv, Filling, HalfFilled, Sample
    <2>2. Right(measurement) => Right(measurement')
        BY <1>3, <2>1 DEF Right, Whole
    <2> QED BY <1>1, <2>2 DEF IInv, Corrected
<1>7. Carried'
    BY <1>1, <1>3 DEF IInv, Carried, InUse, Flow!Waiting
<1> QED BY <1>1, <1>4, <1>5, <1>6, <1>7, Zenon DEF IInv

LEMMA FetchGyroKeeps ==
    ASSUME IInv, FetchGyro
    PROVE  IInv'
<1>1. /\ UNCHANGED <<owned, pending, busy, payload, put, bridge, calibrated,
                     offset, sum, overlapped, worker, result>>
      /\ pc' \in [Calibrators -> Places]
      /\ Flags' /\ Calibration' /\ ProcessedAsPut'
    BY FetchElsewhere
<1>2. /\ pc["sampler"] = "gyro" /\ pc'["sampler"] = "mag"
      /\ measurement' = [measurement EXCEPT !.gyro = Bias]
    BY DEF FetchGyro, IInv, Typed, Calibrators
<1>3. /\ measurement \in Sample /\ measurement' \in Sample
      /\ measurement'.acc = measurement.acc
      /\ measurement'.mag = measurement.mag
      /\ measurement'.gyro = Bias
    BY <1>2, ImuAssumption DEF IInv, Typed, Sample
<1>4. Typed'
    BY <1>1, <1>3 DEF IInv, Typed
<1>5. Filling'
    BY <1>2, <1>3 DEF IInv, Filling, HalfFilled
<1>6. Corrected'
    <2>1. measurement'.acc # measurement'.mag
        BY <1>2, <1>3 DEF IInv, Filling, HalfFilled, Sample
    <2>2. Right(measurement')
        BY <1>3, <2>1 DEF Right, Whole
    <2> QED BY <1>1, <2>2 DEF IInv, Corrected
<1>7. Carried'
    BY <1>1, <1>3 DEF IInv, Carried, InUse, Flow!Waiting
<1> QED BY <1>1, <1>4, <1>5, <1>6, <1>7, Zenon DEF IInv

\* What the sampling thread leaves in its struct is right when no calibration
\* runs.
LEMMA FetchMagKeeps ==
    ASSUME IInv, FetchMag
    PROVE  IInv'
<1> DEFINE settled == \A p \in Calibrators : ~Calibrating(p)
           rotation == IF calibrated THEN Bias - offset ELSE Bias
<1>1. /\ UNCHANGED <<owned, pending, busy, payload, put, bridge, calibrated,
                     offset, sum, overlapped, worker, result>>
      /\ pc' \in [Calibrators -> Places]
      /\ Flags' /\ Calibration' /\ ProcessedAsPut'
    BY FetchElsewhere
<1>2. pc["sampler"] = "mag" /\ pc'["sampler"] = "produce"
    BY DEF FetchMag, IInv, Typed, Calibrators
<1>3. measurement \in Sample /\ measurement.gyro = Bias
    BY <1>2 DEF IInv, Typed, Filling
<1>4. measurement' = [measurement EXCEPT !.mag = @ + 1, !.gyro = rotation,
                                         !.settled = settled]
    BY <1>3, Zenon DEF FetchMag
<1>5. rotation \in Int
    BY ImuAssumption DEF IInv, Typed
<1>6. NobodyCalibrates <=> settled
    BY DEF NobodyCalibrates
<1>7. PICK b \in BOOLEAN : b = settled
    BY Zenon
<1> HIDE DEF settled
<1>8. /\ measurement' \in Sample
      /\ measurement'.acc = measurement.acc
      /\ measurement'.mag = measurement.mag + 1
      /\ measurement'.gyro = rotation /\ measurement'.settled = b
    <2>1. measurement' = [measurement EXCEPT !.mag = @ + 1, !.gyro = rotation,
                                             !.settled = b]
        BY <1>4, <1>7, Zenon
    <2> HIDE DEF rotation
    <2>2. measurement.acc \in Nat /\ measurement.mag + 1 \in Nat
            /\ measurement.streamable \in BOOLEAN
        BY <1>3 DEF Sample
    <2>3. measurement' = [acc |-> measurement.acc, gyro |-> rotation,
                          mag |-> measurement.mag + 1,
                          streamable |-> measurement.streamable, settled |-> b]
        <3>1. CASE b = TRUE
            BY <1>3, <2>1, <3>1 DEF Sample
        <3>2. CASE b = FALSE
            BY <1>3, <2>1, <3>2 DEF Sample
        <3> QED BY <3>1, <3>2
    <2>4. measurement' \in Sample
        BY <1>5, <2>2, <2>3, Zenon DEF Sample
    <2> QED BY <2>3, <2>4, Zenon
<1>9. Typed'
    BY <1>1, <1>8 DEF IInv, Typed
<1>10. Filling'
    BY <1>2, <1>3, <1>8 DEF IInv, Filling, HalfFilled, Sample
<1>11. Corrected'
    <2>1. ASSUME ~overlapped PROVE rotation \in {0, Bias}
        BY <2>1, ImuAssumption DEF IInv, Calibration
    <2>2. ASSUME ~overlapped, b = TRUE PROVE rotation = 0
        <3>1. calibrated /\ offset = Bias
            BY <1>2, <1>6, <1>7, <2>2 DEF IInv, Calibration
        <3> QED BY <3>1, ImuAssumption
    <2>3. ~overlapped => Right(measurement')
        BY <1>8, <2>1, <2>2 DEF Right
    <2> QED BY <1>1, <2>3 DEF IInv, Corrected
<1>12. Carried'
    <2>1. \A m \in Meas : put[m].mag \in Nat /\ put[m].mag <= measurement.mag
        BY DEF IInv, Typed, Sample, Carried
    <2>2. measurement.mag \in Nat
        BY <1>3 DEF Sample
    <2>3. \A m \in Meas : put'[m].mag <= measurement'.mag
        BY <1>1, <1>8, <2>1, <2>2
    <2>4. InUse' = InUse
        BY <1>1 DEF InUse, Flow!Waiting
    <2> QED BY <1>1, <2>3, <2>4 DEF IInv, Carried
<1> QED BY <1>1, <1>9, <1>10, <1>11, <1>12, Zenon DEF IInv

LEMMA ProduceKeeps ==
    ASSUME IInv, NEW m \in Meas, Produce(m)
    PROVE  IInv'
<1> DEFINE streams == bridge \/ stream.enabled
           sample == [measurement EXCEPT !.streamable = streams]
<1>1. /\ pc["sampler"] = "produce"
      /\ m \notin InUse /\ owned' = owned \cup {m}
      /\ measurement' = sample
      /\ payload' = [payload EXCEPT ![m] = IF bridge THEN sample ELSE NULL]
      /\ put' = [put EXCEPT ![m] = sample]
      /\ pc' = [pc EXCEPT !["sampler"] = "put"]
      /\ UNCHANGED <<pending, busy, bridge, calibrated, offset, sum,
                     overlapped, worker, result>>
    BY DEF Produce, Flow!Allocate, InUse, gyro
<1>2. streams \in BOOLEAN
    OBVIOUS
<1> HIDE DEF streams
<1>3. /\ measurement \in Sample /\ sample \in Sample
      /\ sample.acc = measurement.acc /\ sample.mag = measurement.mag
      /\ sample.gyro = measurement.gyro
      /\ sample.settled = measurement.settled
    BY <1>2 DEF IInv, Typed, Sample
<1> HIDE DEF sample
<1>4. /\ pc' \in [Calibrators -> Places] /\ pc'["sampler"] = "put"
      /\ \A p \in Calibrators \ {"sampler"} : pc'[p] = pc[p]
    BY <1>1 DEF IInv, Typed, Calibrators, Places
<1>5. /\ payload' \in [Meas -> Sample \cup {NULL}] /\ put' \in [Meas -> Sample]
      /\ payload'[m] = IF bridge THEN sample ELSE NULL
      /\ put'[m] = sample
      /\ \A x \in Meas \ {m} : payload'[x] = payload[x] /\ put'[x] = put[x]
    BY <1>1, <1>3 DEF IInv, Typed
<1>6. Typed'
    BY <1>1, <1>3, <1>4, <1>5 DEF IInv, Typed
<1>7. Flags'
    BY <1>1, Zenon DEF IInv, Flags
<1>8. Calibration'
    BY <1>1, <1>4, SameCalibration
<1>9. Corrected'
    <2>1. Right(measurement) => Right(sample)
        BY <1>3 DEF Right, Whole
    <2> QED BY <1>1, <1>5, <2>1 DEF IInv, Corrected
<1>10. Carried'
    <2>1. InUse' = InUse \cup {m}
        BY <1>1 DEF InUse, Flow!Waiting
    <2>2. measurement.mag \in Nat
        BY <1>3 DEF Sample
    <2>3. \A x \in Meas : put'[x].mag <= measurement'.mag
        BY <1>1, <1>3, <1>5, <2>2 DEF IInv, Carried
    <2>4. Whole(sample)
        BY <1>1, <1>3, <2>2 DEF IInv, Filling, HalfFilled, Whole, Sample
    <2>5. \A x \in Meas : payload'[x] # NULL => Whole(payload'[x])
        BY <1>5, <2>4 DEF IInv, Carried
    <2> QED BY <1>1, <1>5, <2>1, <2>3, <2>5 DEF IInv, Carried
<1>11. ProcessedAsPut'
    <2>1. m # busy
        BY <1>1 DEF InUse
    <2>2. worker = "finish" => busy \in Meas
        BY DEF IInv, Typed, Carried
    <2> QED BY <1>1, <1>5, <2>1, <2>2 DEF IInv, ProcessedAsPut
<1>12. Filling'
    BY <1>1, <1>3, <1>4 DEF IInv, Filling, HalfFilled
<1> QED BY <1>6, <1>7, <1>8, <1>9, <1>10, <1>11, <1>12, Zenon DEF IInv

LEMMA PutSampleKeeps ==
    ASSUME IInv, NEW m \in Meas, PutSample(m)
    PROVE  IInv'
<1>1. /\ pc["sampler"] = "put"
      /\ m \in owned /\ owned' = owned \ {m} /\ pending' = Append(pending, m)
      /\ pc' = [pc EXCEPT !["sampler"] = "fetch"]
      /\ UNCHANGED <<busy, payload, measurement, put, bridge, calibrated,
                     offset, sum, overlapped, worker, result>>
    BY DEF PutSample, Flow!Submit, gyro, sampled
<1>2. /\ pc' \in [Calibrators -> Places] /\ pc'["sampler"] = "fetch"
      /\ \A p \in Calibrators \ {"sampler"} : pc'[p] = pc[p]
    BY <1>1 DEF IInv, Typed, Calibrators, Places
<1>3. pending \in Seq(Meas) /\ pending' \in Seq(Meas)
    BY <1>1, AppendProperties DEF IInv, Typed
<1>4. Typed'
    BY <1>1, <1>2, <1>3 DEF IInv, Typed
<1>5. Flags'
    BY <1>1, Zenon DEF IInv, Flags
<1>6. Calibration'
    BY <1>1, <1>2, SameCalibration
<1>7. Corrected' /\ ProcessedAsPut'
    BY <1>1, SameCorrected, SameProcessed
<1>8. Carried'
    <2>1. \A i \in 1 .. Len(pending') :
              pending'[i] \in Flow!Waiting \cup {m}
        BY <1>1, <1>3, AppendProperties DEF Flow!Waiting
    <2>2. Flow!Waiting' \subseteq Flow!Waiting \cup {m}
        BY <2>1 DEF Flow!Waiting
    <2>3. InUse' \subseteq InUse
        BY <1>1, <2>2 DEF InUse
    <2> QED BY <1>1, <2>3 DEF IInv, Carried
<1>9. Filling'
    BY <1>1, <1>2, SameFilling DEF HalfFilled
<1> QED BY <1>4, <1>5, <1>6, <1>7, <1>8, <1>9, Zenon DEF IInv

LEMMA TakeSampleKeeps ==
    ASSUME IInv, TakeSample
    PROVE  IInv'
<1>1. /\ worker = "idle" /\ worker' = "process"
      /\ pending # <<>> /\ busy' = Head(pending) /\ pending' = Tail(pending)
      /\ UNCHANGED <<owned, payload, measurement, put, bridge, calibrated,
                     offset, sum, overlapped, pc, result>>
    BY DEF TakeSample, Flow!Begin, gyro, sampled
<1>2. /\ pending \in Seq(Meas) /\ Len(pending) \in Nat \ {0}
      /\ pending' \in Seq(Meas) /\ busy' \in Meas
      /\ busy' = pending[1] /\ Len(pending') = Len(pending) - 1
      /\ \A i \in 1 .. Len(pending') : pending'[i] = pending[i + 1]
    BY <1>1, HeadTailProperties, EmptySeq DEF IInv, Typed
<1>3. Typed'
    BY <1>1, <1>2 DEF IInv, Typed
<1>4. Flags'
    BY <1>1, Zenon DEF IInv, Flags
<1>5. Calibration'
    BY <1>1, SameCalibration
<1>6. Corrected'
    BY <1>1, SameCorrected
<1>7. Carried'
    <2>1. busy' \in Flow!Waiting
        BY <1>2 DEF Flow!Waiting
    <2>2. \A i \in 1 .. Len(pending') : pending'[i] \in Flow!Waiting
        BY <1>2 DEF Flow!Waiting
    <2>3. Flow!Waiting' \subseteq Flow!Waiting
        BY <2>2 DEF Flow!Waiting
    <2>4. InUse' \subseteq InUse
        BY <1>1, <2>1, <2>3 DEF InUse
    <2>5. busy' # NULL
        BY <1>2, ImuAssumption
    <2> QED BY <1>1, <2>4, <2>5 DEF IInv, Carried
<1>8. ProcessedAsPut'
    BY <1>1 DEF ProcessedAsPut
<1>9. Filling'
    BY <1>1, SameFilling
<1> QED BY <1>3, <1>4, <1>5, <1>6, <1>7, <1>8, <1>9, Zenon DEF IInv

\* What the node sees is as the properties say, and not one before the one put.
LEMMA DoProcessKeeps ==
    ASSUME IInv, DoProcess
    PROVE  IInv'
<1>1. /\ worker = "process" /\ worker' = "finish"
      /\ result' = PayloadOf(busy)
      /\ UNCHANGED <<owned, pending, busy, payload, measurement, put, bridge,
                     calibrated, offset, sum, overlapped, pc>>
    BY DEF DoProcess, flow, gyro, sampled
<1>2. busy \in Meas \cap InUse
    BY <1>1 DEF IInv, Typed, Carried, InUse
<1>3. /\ payload[busy] \in Sample \cup {NULL} /\ put[busy] \in Sample
      /\ measurement \in Sample
    BY <1>2 DEF IInv, Typed
<1>4. ASSUME payload[busy] = NULL
      PROVE  ProcessedAsPut' /\ Corrected' /\ result' \in Sample
    <2>1. result' = measurement
        BY <1>1, <1>4 DEF PayloadOf
    <2>2. ~bridge
        BY <1>2, <1>3, <1>4, ImuAssumption DEF IInv, Carried
    <2>3. put[busy].mag <= measurement.mag
        BY <1>2 DEF IInv, Carried
    <2>4. measurement.acc \in {measurement.mag, measurement.mag + 1}
        BY <1>3 DEF IInv, Filling, Sample
    <2>6. ProcessedAsPut'
        BY <1>1, <2>1, <2>2, <2>3, <2>4 DEF ProcessedAsPut
    <2>7. Corrected'
        BY <1>1, <2>1 DEF IInv, Corrected
    <2> QED BY <1>3, <2>1, <2>6, <2>7
<1>5. ASSUME payload[busy] # NULL
      PROVE  ProcessedAsPut' /\ Corrected' /\ result' \in Sample
    <2>1. result' = payload[busy]
        BY <1>1, <1>5 DEF PayloadOf
    <2>2. bridge
        BY <1>2, <1>5 DEF IInv, Carried
    <2>3. payload[busy] = put[busy]
        BY <1>2, <2>2 DEF IInv, Carried
    <2>4. ProcessedAsPut'
        BY <1>1, <2>1, <2>2, <2>3 DEF ProcessedAsPut
    <2>5. Corrected'
        BY <1>1, <1>2, <1>5, <2>1 DEF IInv, Corrected
    <2> QED BY <1>3, <1>5, <2>1, <2>4, <2>5
<1>6. ProcessedAsPut' /\ Corrected' /\ result' \in Sample
    BY <1>4, <1>5
<1>7. Typed'
    BY <1>1, <1>6 DEF IInv, Typed
<1>8. Flags'
    BY <1>1, Zenon DEF IInv, Flags
<1>9. Calibration'
    BY <1>1, SameCalibration
<1>10. Carried'
    <2>1. InUse' = InUse /\ busy # NULL
        BY <1>1 DEF InUse, Flow!Waiting, IInv, Carried
    <2>2. bridge => payload[busy] # NULL
        BY <1>2, <1>3, ImuAssumption DEF IInv, Carried
    <2>3. bridge => Whole(result')
        BY <1>1, <1>2, <2>2 DEF PayloadOf, IInv, Carried
    <2> QED BY <1>1, <2>1, <2>3 DEF IInv, Carried
<1>11. Filling'
    BY <1>1, SameFilling
<1> QED BY <1>6, <1>7, <1>8, <1>9, <1>10, <1>11, Zenon DEF IInv

LEMMA FinishSampleKeeps ==
    ASSUME IInv, FinishSample
    PROVE  IInv'
<1>1. /\ worker' = "idle" /\ busy' = NULL
      /\ UNCHANGED <<owned, pending, payload, measurement, put, bridge,
                     calibrated, offset, sum, overlapped, pc, result>>
    BY DEF FinishSample, Flow!End, gyro, sampled
<1>2. Typed'
    BY <1>1 DEF IInv, Typed
<1>3. Flags'
    BY <1>1, Zenon DEF IInv, Flags
<1>4. Calibration'
    BY <1>1, SameCalibration
<1>5. Corrected'
    BY <1>1, SameCorrected
<1>6. Carried'
    <2>1. Meas \cap InUse' \subseteq Meas \cap InUse
        BY <1>1, ImuAssumption DEF InUse, Flow!Waiting
    <2> QED BY <1>1, <2>1 DEF IInv, Carried
<1>7. ProcessedAsPut'
    BY <1>1 DEF ProcessedAsPut
<1>8. Filling'
    BY <1>1, SameFilling
<1> QED BY <1>2, <1>3, <1>4, <1>5, <1>6, <1>7, <1>8, Zenon DEF IInv

-----------------------------------------------------------------------------
(* Every step.                                                             *)

\* The steps that touch neither a measurement nor a calibration.
LEMMA ElsewhereKeeps ==
    ASSUME IInv,
           \/ NotProduced \/ DropSample \/ MainStep
           \/ CmdStream \/ StartTimer \/ StreamEnd \/ UNCHANGED vars
    PROVE  IInv'
<1>1. UNCHANGED <<owned, pending, busy, payload, measurement, put, bridge,
                  calibrated, offset, sum, overlapped, worker, result>>
    BY DEF NotProduced, DropSample, MainStep, Register, ProducerStart,
           CmdStream, StartTimer, StreamEnd, vars, flow, gyro, sampled
<1>2. /\ pc' \in [Calibrators -> Places]
      /\ \A p \in Calibrators : \/ pc'[p] = pc[p]
                                \/ /\ pc[p] \notin {"start", "sum", "set"}
                                   /\ pc'[p] \notin {"start", "sum", "set"}
      /\ pc'["sampler"] = pc["sampler"] \/ (~HalfFilled /\ ~HalfFilled')
    BY DEF NotProduced, DropSample, MainStep, Register, ProducerStart,
           CmdStream, StartTimer, StreamEnd, vars, IInv, Typed, Calibrators,
           Places, HalfFilled
<1>3. Typed'
    BY <1>1, <1>2 DEF IInv, Typed
<1>4. Calibration'
    BY <1>1, <1>2, SameCalibration
<1>5. Corrected' /\ Carried' /\ ProcessedAsPut'
    BY <1>1, SameCorrected, SameCarried, SameProcessed
<1>6. bridge' \in BOOLEAN /\ calibrated' \in BOOLEAN /\ overlapped' \in BOOLEAN
    BY <1>1, Zenon DEF IInv, Flags
<1>7. Filling'
    BY <1>1, <1>2, SameFilling
<1> QED BY <1>3, <1>4, <1>5, <1>6, <1>7, Zenon DEF IInv, Flags

LEMMA NextKeeps == IInv /\ [Next]_vars => IInv'
<1> SUFFICES ASSUME IInv, [Next]_vars PROVE IInv'
    OBVIOUS
<1>1. CASE \E p \in Calibrators : CalibrateStep(p)
    BY <1>1, SumReadingKeeps, CopyMeanKeeps, SetCalibratedKeeps
        DEF CalibrateStep
<1>2. CASE StartSampling \/ CmdCalibrate
    BY <1>2, StartKeeps
<1>3. CASE FetchAccel \/ FetchGyro \/ FetchMag
    BY <1>3, FetchAccelKeeps, FetchGyroKeeps, FetchMagKeeps
<1>4. CASE \E m \in Meas : Produce(m) \/ PutSample(m)
    BY <1>4, ProduceKeeps, PutSampleKeeps
<1>5. CASE WorkerStep
    BY <1>5, TakeSampleKeeps, DoProcessKeeps, FinishSampleKeeps
        DEF WorkerStep
<1>6. CASE \/ NotProduced \/ DropSample \/ MainStep
           \/ CmdStream \/ StartTimer \/ StreamEnd \/ UNCHANGED vars
    BY <1>6, ElsewhereKeeps
<1> QED BY <1>1, <1>2, <1>3, <1>4, <1>5, <1>6
        DEF Next, SamplerStep, ShellStep, Calibrators

\* For every number of readings, every bias of the gyroscope and any number of
\* measurements: a calibration that runs alone finds the bias; what is
\* processed is corrected, but for a struct fusion_imu's chain sees half filled
\* in, which may show the plain reading; and it is what was put, or in
\* fusion_imu a later sample or one mixed with the next
\* (imu_data_producer.c, both main.c).
THEOREM ImuSafe ==
    Spec => [](OffsetIsBias /\ ProcessedCorrected /\ ProcessedAsPut)
<1>1. IInv => OffsetIsBias /\ ProcessedCorrected /\ ProcessedAsPut
    BY DEF IInv, Calibration, Corrected, Carried, Right, OffsetIsBias,
           ProcessedCorrected
<1> QED BY InitEstablishes, NextKeeps, <1>1, PTL DEF Spec

\* For every number of readings and every bias: a calibration finds the bias,
\* a second one too, unless another runs at the same time
\* (imu_data_producer.c: imu_producer_calibrate).
THEOREM BiasFound == Spec => []OffsetIsBias
BY ImuSafe, PTL

\* For every bias and any number of samples and measurements: what a chain
\* processes is the true rotation, unless it was sampled while a calibration had
\* switched the correction off, or is fusion_imu's struct while it is filled in,
\* where the plain reading stands across the wait for the magnetometer; and it
\* is never anything but one of the two (imu_data_producer.c: imu_fetch_data;
\* main.c: on_imu_data_production).
THEOREM RotationTrue == Spec => []ProcessedCorrected
BY ImuSafe, PTL
=============================================================================
