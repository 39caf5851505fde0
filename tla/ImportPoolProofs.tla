-------------------------- MODULE ImportPoolProofs --------------------------
(* Proofs about ImportPool: its safety invariants, and that it implements   *)
(* SetSync, for any number of stickers and workers.                         *)
EXTENDS ImportPool, TLAPS, FiniteSetTheorems

(***************************************************************************)
(* Type correctness.                                                       *)
(***************************************************************************)
LEMMA WorkerTypes == Workers \subseteq Nat /\ Entries \subseteq Nat /\ 0 \in Entries
BY PoolAssumption DEF Workers, Entries

LEMMA StepTypeOK ==
  ASSUME TypeOK, NEW w \in Workers, Step(w) PROVE TypeOK'
<1> USE PoolAssumption, WorkerTypes
        DEF TypeOK, PCs, Holding, Outcomes, JobColumns, GoTo, SettleAs, FailAs, TakeEntry,
            host, results, counters, Unwritten
<1>1. CASE Lookup(w) BY <1>1 DEF Lookup, Entries
<1>2. CASE Skip(w) BY <1>2 DEF Skip, Entries
<1>3. CASE FoundRow(w)
  <2>1. at[w] \in Entries /\ updated' \subseteq Entries BY <1>3 DEF FoundRow
  <2> QED BY <1>3, <2>1 DEF FoundRow
<1>4. CASE NoRow(w) BY <1>4 DEF NoRow
<1>5. CASE GotFilePath(w) BY <1>5 DEF GotFilePath
<1>6. CASE GetFileFails(w) BY <1>6 DEF GetFileFails
<1>7. CASE Downloaded(w) BY <1>7 DEF Downloaded
<1>8. CASE Converted(w) BY <1>8 DEF Converted
<1>9. CASE FfmpegMissing(w) BY <1>9 DEF FfmpegMissing
<1>10. CASE TakenForMissingChromium(w) BY <1>10 DEF TakenForMissingChromium
<1>11. CASE ConversionFails(w) BY <1>11 DEF ConversionFails
<1>12. CASE SaveFile(w) BY <1>12 DEF SaveFile
<1>13. CASE RecordFile(w)
  <2>1. at[w] \in Entries /\ created' \subseteq Entries BY <1>13 DEF RecordFile
  <2> QED BY <1>13, <2>1 DEF RecordFile
<1>14. CASE Reported(w) BY <1>14 DEF Reported, Column
<1>15. CASE WorkerEnds(w) BY <1>15 DEF WorkerEnds
<1> QED BY <1>1, <1>2, <1>3, <1>4, <1>5, <1>6, <1>7, <1>8, <1>9, <1>10, <1>11, <1>12,
           <1>13, <1>14, <1>15 DEF Step

LEMMA InitTypeOK == Init => TypeOK
<1> SUFFICES ASSUME Init PROVE TypeOK OBVIOUS
<1>1. tgsOff \in BOOLEAN
  <2>1. tgsOff = (HasAnimated /\ ~chromium) BY DEF Init
  <2>2. CASE HasAnimated /\ ~chromium BY <2>1, <2>2
  <2>3. CASE ~(HasAnimated /\ ~chromium) BY <2>1, <2>3
  <2> QED BY <2>2, <2>3
<1>2. /\ input \in [Entries -> Inputs]
      /\ ffmpeg \in BOOLEAN /\ chromium \in BOOLEAN /\ webmOff \in BOOLEAN
      /\ phase \in {"pool", "drained", "threw"}
      /\ renderer \in {"none", "open", "closed"}
  BY DEF Init
<1>3. /\ nextIndex \in 0 .. Total
      /\ pc \in [Workers -> PCs]
      /\ at \in [Workers -> Entries]
  BY WorkerTypes, PoolAssumption DEF Init, PCs
<1>4. /\ completed \in Nat /\ failedCount \in Nat /\ skippedAnimatedCount \in Nat
      /\ created \subseteq Entries /\ updated \subseteq Entries /\ stored \subseteq Entries
  BY DEF Init
<1>5. write \in [Workers -> JobColumns] /\ jobRow \in JobColumns
  BY DEF Init, JobColumns
<1>6. outcome \in [Entries -> Outcomes] BY DEF Init, Outcomes
<1> QED BY <1>1, <1>2, <1>3, <1>4, <1>5, <1>6 DEF TypeOK

LEMMA NextTypeOK == TypeOK /\ [Next]_vars => TypeOK'
<1> SUFFICES ASSUME TypeOK, [Next]_vars PROVE TypeOK' OBVIOUS
<1>1. ASSUME NEW w \in Workers, Step(w) PROVE TypeOK' BY <1>1, StepTypeOK
<1>2. ASSUME NEW w \in Workers, Throw(w) PROVE TypeOK'
  BY <1>2 DEF TypeOK, Throw, GoTo, CloseRenderer, PCs, host, results, counters
<1>3. CASE Drain BY <1>3 DEF TypeOK, Drain, CloseRenderer, host, results, counters
<1>4. CASE UNCHANGED vars BY <1>4 DEF TypeOK, vars
<1> QED BY <1>1, <1>2, <1>3, <1>4 DEF Next

(* Every variable keeps its type: no counter leaves the naturals and no worker
   holds anything but an entry of the set. *)
THEOREM TypeCorrect == Spec => []TypeOK
BY InitTypeOK, NextTypeOK, PTL DEF Spec

(***************************************************************************)
(* The inductive invariant.                                                *)
(***************************************************************************)

(* A worker that holds an entry took it with nextIndex++, nobody else holds
   it, and nothing beyond nextIndex has been touched. *)
ClaimInv ==
  /\ \A w \in Workers : pc[w] \in Holding =>
       /\ at[w] < nextIndex
       /\ outcome[at[w]] = "open"
       /\ \A v \in Workers \ {w} : pc[v] \in Holding => at[v] # at[w]
  /\ \A e \in Entries : e >= nextIndex => outcome[e] = "open" /\ e \notin stored

(* An entry that was taken and is still open is held by a worker, or was when
   that worker threw. *)
OpenInv ==
  \A e \in Entries : e < nextIndex /\ outcome[e] = "open" =>
    \E w \in Workers : at[w] = e /\ (pc[w] \in Holding \/ pc[w] = "threw")

FileInv ==
  /\ created = SettledAs("created")
  /\ created \subseteq stored
  /\ \A e \in stored : outcome[e] \in {"open", "created"}
  /\ \A w \in Workers : pc[w] \in Holding => (at[w] \in stored <=> pc[w] = "saved")
  /\ \A w \in Workers : pc[w] \in Holding \ {"lookup"} => input[at[w]].row = "absent"
  /\ \A w \in Workers : pc[w] = "convert" => input[at[w]].kind # "static"

PhaseInv ==
  /\ \A w \in Workers : pc[w] = "threw" => phase = "threw"
  /\ \A w \in Workers : pc[w] = "done" => nextIndex = Total
  /\ \A w \in Workers : phase = "drained" => pc[w] = "done"

RendererInv ==
  /\ phase = "pool" => renderer # "closed"
  /\ renderer = "none" /\ HasAnimated => tgsOff
  /\ \A w \in Workers : pc[w] \in Holding /\ input[at[w]].kind = "animated" => renderer # "none"

ReportInv ==
  /\ jobRow.completed <= completed /\ jobRow.failed <= failedCount
  /\ \A w \in Workers : write[w].completed <= completed /\ write[w].failed <= failedCount

(* Once a sticker is settled, the row shows an update of this attempt, or one
   is under way or was when its worker threw; likewise for the failed column. *)
WrittenInv ==
  /\ Settled # {} => \/ jobRow.completed # Unwritten
                     \/ \E w \in Workers : pc[w] \in {"report", "threw"} /\ write[w].completed # Unwritten
  /\ SettledAs("created") \union SettledAs("failed") # {} =>
       \/ jobRow.failed # Unwritten
       \/ \E w \in Workers : pc[w] \in {"report", "threw"} /\ write[w].failed # Unwritten

IInv ==
  /\ TypeOK
  /\ ClaimInv
  /\ OpenInv
  /\ FileInv
  /\ PhaseInv
  /\ RendererInv
  /\ ReportInv
  /\ WrittenInv
  /\ CountersAgree

(* Only TakeEntry moves nextIndex, and only its worker's entry changes hands. *)
LEMMA ClaimInvStep ==
  ASSUME TypeOK, TypeOK', ClaimInv, NEW w \in Workers, Step(w) \/ Throw(w)
  PROVE  ClaimInv'
<1> USE PoolAssumption, WorkerTypes DEF TypeOK, ClaimInv, Entries, Holding, PCs, GoTo, SettleAs,
                                        FailAs, TakeEntry, host, results, counters, Unwritten
<1>1. CASE Lookup(w) BY <1>1 DEF Lookup
<1>2. CASE Skip(w) BY <1>2 DEF Skip
<1>3. CASE FoundRow(w) BY <1>3 DEF FoundRow
<1>4. CASE NoRow(w) BY <1>4 DEF NoRow
<1>5. CASE GotFilePath(w) BY <1>5 DEF GotFilePath
<1>6. CASE GetFileFails(w) BY <1>6 DEF GetFileFails
<1>7. CASE Downloaded(w) BY <1>7 DEF Downloaded
<1>8. CASE Converted(w) BY <1>8 DEF Converted
<1>9. CASE FfmpegMissing(w) BY <1>9 DEF FfmpegMissing
<1>10. CASE TakenForMissingChromium(w) BY <1>10 DEF TakenForMissingChromium
<1>11. CASE ConversionFails(w) BY <1>11 DEF ConversionFails
<1>12. CASE SaveFile(w) BY <1>12 DEF SaveFile
<1>13. CASE RecordFile(w) BY <1>13 DEF RecordFile
<1>14. CASE Reported(w) BY <1>14 DEF Reported
<1>15. CASE WorkerEnds(w) BY <1>15 DEF WorkerEnds
<1>16. CASE Throw(w) BY <1>16 DEF Throw, CloseRenderer
<1> QED BY <1>1, <1>2, <1>3, <1>4, <1>5, <1>6, <1>7, <1>8, <1>9, <1>10, <1>11, <1>12, <1>13,
           <1>14, <1>15, <1>16 DEF Step

(* An entry leaves a worker's hands only by being settled or by a throw. *)
LEMMA OpenInvStep ==
  ASSUME TypeOK, TypeOK', ClaimInv, OpenInv, NEW w \in Workers, Step(w) \/ Throw(w)
  PROVE  OpenInv'
<1> USE PoolAssumption, WorkerTypes DEF TypeOK, OpenInv, ClaimInv, Entries, Holding, PCs, GoTo,
                                        SettleAs, FailAs, TakeEntry, host, results, counters,
                                        Unwritten
<1>1. CASE Lookup(w) BY <1>1 DEF Lookup
<1>2. CASE Skip(w) BY <1>2 DEF Skip
<1>3. CASE FoundRow(w) BY <1>3 DEF FoundRow
<1>4. CASE NoRow(w) BY <1>4 DEF NoRow
<1>5. CASE GotFilePath(w) BY <1>5 DEF GotFilePath
<1>6. CASE GetFileFails(w) BY <1>6 DEF GetFileFails
<1>7. CASE Downloaded(w) BY <1>7 DEF Downloaded
<1>8. CASE Converted(w) BY <1>8 DEF Converted
<1>9. CASE FfmpegMissing(w) BY <1>9 DEF FfmpegMissing
<1>10. CASE TakenForMissingChromium(w) BY <1>10 DEF TakenForMissingChromium
<1>11. CASE ConversionFails(w) BY <1>11 DEF ConversionFails
<1>12. CASE SaveFile(w) BY <1>12 DEF SaveFile
<1>13. CASE RecordFile(w) BY <1>13 DEF RecordFile
<1>14. CASE Reported(w) BY <1>14 DEF Reported
<1>15. CASE WorkerEnds(w) BY <1>15 DEF WorkerEnds
<1>16. CASE Throw(w) BY <1>16 DEF Throw, CloseRenderer
<1> QED BY <1>1, <1>2, <1>3, <1>4, <1>5, <1>6, <1>7, <1>8, <1>9, <1>10, <1>11, <1>12, <1>13,
           <1>14, <1>15, <1>16 DEF Step

(* Files appear in SaveFile and are recorded by the same worker in RecordFile. *)
LEMMA FileInvStep ==
  ASSUME TypeOK, TypeOK', ClaimInv, FileInv, NEW w \in Workers, Step(w) \/ Throw(w)
  PROVE  FileInv'
<1> USE PoolAssumption, WorkerTypes DEF TypeOK, FileInv, ClaimInv, SettledAs, Entries, Holding,
                                        PCs, GoTo, SettleAs, FailAs, TakeEntry, host, results,
                                        counters, Unwritten
<1>1. CASE Lookup(w) BY <1>1 DEF Lookup
<1>2. CASE Skip(w) BY <1>2 DEF Skip
<1>3. CASE FoundRow(w) BY <1>3 DEF FoundRow
<1>4. CASE NoRow(w) BY <1>4 DEF NoRow
<1>5. CASE GotFilePath(w) BY <1>5 DEF GotFilePath
<1>6. CASE GetFileFails(w) BY <1>6 DEF GetFileFails
<1>7. CASE Downloaded(w) BY <1>7 DEF Downloaded
<1>8. CASE Converted(w) BY <1>8 DEF Converted
<1>9. CASE FfmpegMissing(w) BY <1>9 DEF FfmpegMissing
<1>10. CASE TakenForMissingChromium(w) BY <1>10 DEF TakenForMissingChromium
<1>11. CASE ConversionFails(w) BY <1>11 DEF ConversionFails
<1>12. CASE SaveFile(w) BY <1>12 DEF SaveFile
<1>13. CASE RecordFile(w) BY <1>13 DEF RecordFile
<1>14. CASE Reported(w) BY <1>14 DEF Reported
<1>15. CASE WorkerEnds(w) BY <1>15 DEF WorkerEnds
<1>16. CASE Throw(w) BY <1>16 DEF Throw, CloseRenderer
<1> QED BY <1>1, <1>2, <1>3, <1>4, <1>5, <1>6, <1>7, <1>8, <1>9, <1>10, <1>11, <1>12, <1>13,
           <1>14, <1>15, <1>16 DEF Step

(* A throw rejects the pool before any other worker takes its next step. *)
LEMMA PhaseInvStep ==
  ASSUME TypeOK, TypeOK', PhaseInv, NEW w \in Workers, Step(w) \/ Throw(w)
  PROVE  PhaseInv'
<1> USE PoolAssumption, WorkerTypes DEF TypeOK, PhaseInv, Holding, PCs, GoTo, SettleAs, FailAs,
                                        TakeEntry, host, results, counters, Unwritten
<1>1. CASE Lookup(w) BY <1>1 DEF Lookup
<1>2. CASE Skip(w) BY <1>2 DEF Skip
<1>3. CASE FoundRow(w) BY <1>3 DEF FoundRow
<1>4. CASE NoRow(w) BY <1>4 DEF NoRow
<1>5. CASE GotFilePath(w) BY <1>5 DEF GotFilePath
<1>6. CASE GetFileFails(w) BY <1>6 DEF GetFileFails
<1>7. CASE Downloaded(w) BY <1>7 DEF Downloaded
<1>8. CASE Converted(w) BY <1>8 DEF Converted
<1>9. CASE FfmpegMissing(w) BY <1>9 DEF FfmpegMissing
<1>10. CASE TakenForMissingChromium(w) BY <1>10 DEF TakenForMissingChromium
<1>11. CASE ConversionFails(w) BY <1>11 DEF ConversionFails
<1>12. CASE SaveFile(w) BY <1>12 DEF SaveFile
<1>13. CASE RecordFile(w) BY <1>13 DEF RecordFile
<1>14. CASE Reported(w) BY <1>14 DEF Reported
<1>15. CASE WorkerEnds(w) BY <1>15 DEF WorkerEnds
<1>16. CASE Throw(w) BY <1>16 DEF Throw, CloseRenderer
<1> QED BY <1>1, <1>2, <1>3, <1>4, <1>5, <1>6, <1>7, <1>8, <1>9, <1>10, <1>11, <1>12, <1>13,
           <1>14, <1>15, <1>16 DEF Step

(* A failed launch disables .tgs conversion before the first entry is taken. *)
LEMMA RendererInvStep ==
  ASSUME TypeOK, TypeOK', RendererInv, NEW w \in Workers, Step(w) \/ Throw(w)
  PROVE  RendererInv'
<1> USE PoolAssumption, WorkerTypes DEF TypeOK, RendererInv, HasAnimated, ConversionDisabled,
                                        Holding, PCs, GoTo, SettleAs, FailAs, TakeEntry, host,
                                        results, counters, Unwritten
<1>1. CASE Lookup(w) BY <1>1 DEF Lookup
<1>2. CASE Skip(w) BY <1>2 DEF Skip
<1>3. CASE FoundRow(w) BY <1>3 DEF FoundRow
<1>4. CASE NoRow(w) BY <1>4 DEF NoRow
<1>5. CASE GotFilePath(w) BY <1>5 DEF GotFilePath
<1>6. CASE GetFileFails(w) BY <1>6 DEF GetFileFails
<1>7. CASE Downloaded(w) BY <1>7 DEF Downloaded
<1>8. CASE Converted(w) BY <1>8 DEF Converted
<1>9. CASE FfmpegMissing(w) BY <1>9 DEF FfmpegMissing
<1>10. CASE TakenForMissingChromium(w) BY <1>10 DEF TakenForMissingChromium
<1>11. CASE ConversionFails(w) BY <1>11 DEF ConversionFails
<1>12. CASE SaveFile(w) BY <1>12 DEF SaveFile
<1>13. CASE RecordFile(w) BY <1>13 DEF RecordFile
<1>14. CASE Reported(w) BY <1>14 DEF Reported
<1>15. CASE WorkerEnds(w) BY <1>15 DEF WorkerEnds
<1>16. CASE Throw(w) BY <1>16 DEF Throw, CloseRenderer
<1> QED BY <1>1, <1>2, <1>3, <1>4, <1>5, <1>6, <1>7, <1>8, <1>9, <1>10, <1>11, <1>12, <1>13,
           <1>14, <1>15, <1>16 DEF Step

(* The counters only grow, so an update in flight never shows more than they do. *)
LEMMA ReportInvStep ==
  ASSUME TypeOK, TypeOK', ReportInv, NEW w \in Workers, Step(w) \/ Throw(w)
  PROVE  ReportInv'
<1> USE PoolAssumption, WorkerTypes DEF TypeOK, ReportInv, Column, JobColumns,
                                        Holding, PCs, GoTo, SettleAs, FailAs, TakeEntry, host,
                                        results, counters, Unwritten
<1>1. CASE Lookup(w) BY <1>1 DEF Lookup
<1>2. CASE Skip(w) BY <1>2 DEF Skip
<1>3. CASE FoundRow(w) BY <1>3 DEF FoundRow
<1>4. CASE NoRow(w) BY <1>4 DEF NoRow
<1>5. CASE GotFilePath(w) BY <1>5 DEF GotFilePath
<1>6. CASE GetFileFails(w) BY <1>6 DEF GetFileFails
<1>7. CASE Downloaded(w) BY <1>7 DEF Downloaded
<1>8. CASE Converted(w) BY <1>8 DEF Converted
<1>9. CASE FfmpegMissing(w) BY <1>9 DEF FfmpegMissing
<1>10. CASE TakenForMissingChromium(w) BY <1>10 DEF TakenForMissingChromium
<1>11. CASE ConversionFails(w) BY <1>11 DEF ConversionFails
<1>12. CASE SaveFile(w) BY <1>12 DEF SaveFile
<1>13. CASE RecordFile(w) BY <1>13 DEF RecordFile
<1>14. CASE Reported(w) BY <1>14 DEF Reported
<1>15. CASE WorkerEnds(w) BY <1>15 DEF WorkerEnds
<1>16. CASE Throw(w) BY <1>16 DEF Throw, CloseRenderer
<1> QED BY <1>1, <1>2, <1>3, <1>4, <1>5, <1>6, <1>7, <1>8, <1>9, <1>10, <1>11, <1>12, <1>13,
           <1>14, <1>15, <1>16 DEF Step

(* A worker that settles a sticker sends an update with its completed column,
   and with the failed column too when it stored the sticker or failed to. *)
LEMMA WrittenInvStep ==
  ASSUME TypeOK, TypeOK', WrittenInv, ClaimInv, NEW w \in Workers, Step(w) \/ Throw(w)
  PROVE  WrittenInv'
<1> USE PoolAssumption, WorkerTypes DEF TypeOK, JobColumns, Unwritten
<1>1. ASSUME UNCHANGED <<outcome, jobRow, write>>, pc[w] \notin {"report", "threw"} \/ pc'[w] = "threw",
             \A v \in Workers \ {w} : pc'[v] = pc[v]
      PROVE  WrittenInv'
  <2>1. Settled' = Settled /\ SettledAs("created")' = SettledAs("created")
          /\ SettledAs("failed")' = SettledAs("failed")
    BY <1>1 DEF Settled, SettledAs
  <2>2. \A v \in Workers : pc[v] \in {"report", "threw"} => pc'[v] \in {"report", "threw"}
    BY <1>1
  <2> QED BY <1>1, <2>1, <2>2 DEF WrittenInv
<1>2. ASSUME NEW e \in Entries, NEW o, NEW f, outcome' = [outcome EXCEPT ![e] = o],
             write' = [write EXCEPT ![w] = [completed |-> completed + 1, failed |-> f]],
             pc' = [pc EXCEPT ![w] = "report"], jobRow' = jobRow, pc[w] # "report",
             f = Unwritten \/ f \in Nat, o \in {"created", "failed"} => f \in Nat, pc[w] # "threw"
      PROVE  WrittenInv'
  <2>1. pc'[w] = "report" /\ write'[w].completed # Unwritten BY <1>2
  <2>2. ASSUME (SettledAs("created") \union SettledAs("failed"))' # {},
               SettledAs("created") \union SettledAs("failed") = {}
        PROVE  write'[w].failed # Unwritten
    <3>1. o \in {"created", "failed"} BY <1>2, <2>2 DEF SettledAs
    <3> QED BY <1>2, <3>1
  <2>3. \A v \in Workers : pc[v] \in {"report", "threw"} =>
          v # w /\ pc'[v] = pc[v] /\ write'[v] = write[v]
    BY <1>2
  <2> QED BY <1>2, <2>1, <2>2, <2>3 DEF WrittenInv
<1> USE DEF GoTo, SettleAs, FailAs, TakeEntry
<1>3. CASE Lookup(w) \/ NoRow(w) \/ GotFilePath(w) \/ Downloaded(w) \/ Converted(w)
           \/ SaveFile(w) \/ WorkerEnds(w)
  BY <1>1, <1>3 DEF Lookup, NoRow, GotFilePath, Downloaded, Converted, SaveFile, WorkerEnds
<1>4. CASE Throw(w) BY <1>1, <1>4 DEF Throw
<1>5. CASE Skip(w)
  <2>1. nextIndex \in Entries BY <1>5 DEF Skip, Entries
  <2> QED BY <1>2, <1>5, <2>1 DEF Skip
<1>6. CASE FoundRow(w) BY <1>2, <1>6 DEF FoundRow
<1>7. CASE GetFileFails(w) \/ ConversionFails(w)
  BY <1>2, <1>7 DEF GetFileFails, ConversionFails
<1>8. CASE FfmpegMissing(w) \/ TakenForMissingChromium(w)
  BY <1>2, <1>8 DEF FfmpegMissing, TakenForMissingChromium
<1>9. CASE RecordFile(w) BY <1>2, <1>9 DEF RecordFile
<1>10. CASE Reported(w)
  <2>1. Settled' = Settled /\ SettledAs("created")' = SettledAs("created")
          /\ SettledAs("failed")' = SettledAs("failed")
    BY <1>10 DEF Reported, Settled, SettledAs
  <2>2. \A v \in Workers \ {w} : pc'[v] = pc[v] BY <1>10 DEF Reported
  <2>3. /\ write[w].completed # Unwritten => jobRow'.completed # Unwritten
        /\ write[w].failed # Unwritten => jobRow'.failed # Unwritten
        /\ jobRow.completed # Unwritten => jobRow'.completed # Unwritten
        /\ jobRow.failed # Unwritten => jobRow'.failed # Unwritten
        /\ write' = write
    BY <1>10 DEF Reported, Column
  <2> QED BY <2>1, <2>2, <2>3 DEF WrittenInv
<1> QED BY <1>3, <1>4, <1>5, <1>6, <1>7, <1>8, <1>9, <1>10 DEF Step

(***************************************************************************)
(* The counters.                                                           *)
(***************************************************************************)
LEMMA EntriesFinite ==
  /\ IsFiniteSet(Entries)
  /\ Cardinality(Entries) = Total
BY PoolAssumption, FS_Interval DEF Entries

(* Settling one open entry adds one to the settled entries, and one to those
   settled that way. *)
LEMMA SettleCounts ==
  ASSUME TypeOK, NEW e \in Entries, outcome[e] = "open",
         NEW o \in Outcomes \ {"open"}, outcome' = [outcome EXCEPT ![e] = o]
  PROVE  /\ Cardinality(Settled') = Cardinality(Settled) + 1
         /\ \A r \in Outcomes \ {"open"} :
              Cardinality(SettledAs(r)') = Cardinality(SettledAs(r)) + (IF r = o THEN 1 ELSE 0)
<1>1. /\ Settled \subseteq Entries
      /\ Settled' = Settled \union {e}
      /\ e \notin Settled
  BY DEF Settled, TypeOK, Outcomes
<1>2. Cardinality(Settled') = Cardinality(Settled) + 1
  BY <1>1, EntriesFinite, FS_Subset, FS_AddElement
<1>3. ASSUME NEW r \in Outcomes \ {"open"}
      PROVE  Cardinality(SettledAs(r)') = Cardinality(SettledAs(r)) + (IF r = o THEN 1 ELSE 0)
  <2>1. SettledAs(r) \subseteq Entries /\ e \notin SettledAs(r)
    BY DEF SettledAs
  <2>2. IsFiniteSet(SettledAs(r)) /\ Cardinality(SettledAs(r)) \in Nat
    BY <2>1, EntriesFinite, FS_Subset, FS_CardinalityType
  <2>3. CASE r = o
    <3>1. SettledAs(r)' = SettledAs(r) \union {e} BY <2>3 DEF SettledAs, TypeOK
    <3> QED BY <2>1, <2>2, <2>3, <3>1, FS_AddElement
  <2>4. CASE r # o
    <3>1. SettledAs(r)' = SettledAs(r) BY <2>4 DEF SettledAs, TypeOK
    <3> QED BY <2>2, <2>4, <3>1
  <2> QED BY <2>3, <2>4
<1> QED BY <1>2, <1>3

(* Each of the branches that settle an entry counts it once, under the one
   heading that applies. *)
LEMMA CountersStep ==
  ASSUME TypeOK, ClaimInv, CountersAgree, NEW w \in Workers, Step(w) \/ Throw(w)
  PROVE  CountersAgree'
<1> DEFINE Open(e, o) == /\ e \in Entries /\ outcome[e] = "open"
                         /\ o \in {"existing", "created", "failed", "skipped"}
                         /\ outcome' = [outcome EXCEPT ![e] = o]
                         /\ completed' = completed + 1
                         /\ failedCount' = failedCount + (IF o = "failed" THEN 1 ELSE 0)
                         /\ skippedAnimatedCount' = skippedAnimatedCount + (IF o = "skipped" THEN 1 ELSE 0)
<1>1. ASSUME NEW e, NEW o, Open(e, o) PROVE CountersAgree'
  BY <1>1, SettleCounts DEF CountersAgree, Outcomes
<1>2. ASSUME UNCHANGED <<counters, outcome>> PROVE CountersAgree'
  BY <1>2 DEF CountersAgree, counters, Settled, SettledAs
<1>3. CASE Skip(w)
  <2>1. Open(nextIndex, "skipped")
    BY <1>3, PoolAssumption DEF Skip, TakeEntry, SettleAs, TypeOK, ClaimInv, Entries
  <2> QED BY <2>1, <1>1
<1> DEFINE e == at[w]
<1>4. CASE FoundRow(w)
  <2>1. Open(e, "existing") BY <1>4 DEF FoundRow, SettleAs, TypeOK, ClaimInv, Holding
  <2> QED BY <2>1, <1>1
<1>5. CASE GetFileFails(w) \/ ConversionFails(w)
  <2>1. Open(e, "failed")
    BY <1>5 DEF GetFileFails, ConversionFails, FailAs, SettleAs, TypeOK, ClaimInv, Holding
  <2> QED BY <2>1, <1>1
<1>6. CASE FfmpegMissing(w) \/ TakenForMissingChromium(w)
  <2>1. Open(e, "skipped")
    BY <1>6 DEF FfmpegMissing, TakenForMissingChromium, SettleAs, TypeOK, ClaimInv, Holding
  <2> QED BY <2>1, <1>1
<1>7. CASE RecordFile(w)
  <2>1. Open(e, "created") BY <1>7 DEF RecordFile, SettleAs, TypeOK, ClaimInv, Holding
  <2> QED BY <2>1, <1>1
<1>8. CASE Lookup(w) \/ NoRow(w) \/ GotFilePath(w) \/ Downloaded(w) \/ Converted(w)
           \/ SaveFile(w) \/ Reported(w) \/ WorkerEnds(w) \/ Throw(w)
  BY <1>2, <1>8 DEF Lookup, NoRow, GotFilePath, Downloaded, Converted, SaveFile, Reported,
                    WorkerEnds, Throw, counters
<1> QED BY <1>3, <1>4, <1>5, <1>6, <1>7, <1>8 DEF Step

(***************************************************************************)
(* The safety theorems.                                                    *)
(***************************************************************************)
LEMMA InitIInv == Init => IInv
<1> SUFFICES ASSUME Init PROVE IInv OBVIOUS
<1>1. TypeOK BY InitTypeOK
<1>2. ClaimInv /\ OpenInv /\ FileInv /\ PhaseInv
  BY WorkerTypes DEF Init, ClaimInv, OpenInv, FileInv, PhaseInv, Holding, SettledAs
<1>3. RendererInv
  <2>1. tgsOff = (HasAnimated /\ ~chromium) BY DEF Init
  <2>2. renderer = "none" /\ HasAnimated => tgsOff
    <3>1. SUFFICES ASSUME renderer = "none", HasAnimated PROVE tgsOff OBVIOUS
    <3>2. ~chromium BY <3>1 DEF Init
    <3> QED BY <2>1, <3>1, <3>2
  <2> QED BY <2>2 DEF Init, RendererInv, Holding
<1>4. ReportInv /\ WrittenInv
  BY DEF Init, ReportInv, WrittenInv, Settled, SettledAs, Unwritten
<1>5. CountersAgree
  <2>1. Settled = {} /\ SettledAs("failed") = {} /\ SettledAs("skipped") = {}
    BY DEF Init, Settled, SettledAs
  <2> QED BY <2>1, FS_EmptySet DEF Init, CountersAgree
<1> QED BY <1>1, <1>2, <1>3, <1>4, <1>5 DEF IInv

LEMMA NextIInv == IInv /\ [Next]_vars => IInv'
<1> SUFFICES ASSUME IInv, [Next]_vars PROVE IInv' OBVIOUS
<1>0. TypeOK' BY NextTypeOK DEF IInv
<1>1. ASSUME NEW w \in Workers, Step(w) \/ Throw(w) PROVE IInv'
  BY <1>0, <1>1, ClaimInvStep, OpenInvStep, FileInvStep, PhaseInvStep, RendererInvStep,
     ReportInvStep, WrittenInvStep, CountersStep DEF IInv
<1>2. CASE Drain
  <2>1. ClaimInv' /\ OpenInv' /\ FileInv' /\ PhaseInv'
    BY <1>2 DEF IInv, Drain, ClaimInv, OpenInv, FileInv, PhaseInv, SettledAs, host, results
  <2>2. RendererInv' /\ ReportInv' /\ CountersAgree'
    BY <1>2 DEF IInv, Drain, RendererInv, ReportInv, CountersAgree,
                CloseRenderer, HasAnimated, Settled, SettledAs, host, counters
  <2>3. WrittenInv' BY <1>2 DEF IInv, Drain, WrittenInv, Settled, SettledAs
  <2> QED BY <1>0, <2>1, <2>2, <2>3 DEF IInv
<1>3. CASE UNCHANGED vars
  BY <1>0, <1>3 DEF IInv, ClaimInv, OpenInv, FileInv, PhaseInv, RendererInv, ReportInv,
     WrittenInv, CountersAgree, HasAnimated, Settled, SettledAs, vars
<1> QED BY <1>1, <1>2, <1>3 DEF Next

LEMMA InductiveInvariant == Spec => []IInv
BY InitIInv, NextIInv, PTL DEF Spec

(* nextIndex++ hands every sticker to one worker only, however many workers
   there are and wherever they are suspended. *)
THEOREM NoStickerTwice == Spec => []OneWorkerPerSticker
<1>1. IInv => OneWorkerPerSticker BY DEF IInv, ClaimInv, OneWorkerPerSticker
<1> QED BY <1>1, InductiveInvariant, PTL

(* completed, failedCount and skippedAnimatedCount are the numbers of stickers
   settled, failed and skipped at every await. *)
THEOREM CountersCorrect == Spec => []CountersAgree
<1>1. IInv => CountersAgree BY DEF IInv
<1> QED BY <1>1, InductiveInvariant, PTL

(* Once every worker has run out of entries, nothing is left open. *)
LEMMA AllDoneSettlesAll ==
  ASSUME IInv, \A w \in Workers : pc[w] = "done"
  PROVE  \A e \in Entries : outcome[e] # "open"
<1>1. 1 \in Workers BY PoolAssumption DEF Workers
<1>2. nextIndex = Total BY <1>1 DEF IInv, PhaseInv
<1> QED BY <1>2, PoolAssumption DEF IInv, OpenInv, Holding, Entries

(* Phase 2 sees every sticker settled and every stored file in createdFiles:
   the rollback knows each file it has to delete. *)
THEOREM DrainCorrect == Spec => []DrainedIsComplete
<1>1. IInv => DrainedIsComplete
  <2> SUFFICES ASSUME IInv, phase = "drained"
               PROVE  /\ completed = Total
                      /\ created = stored
                      /\ created = SettledAs("created")
    BY DEF DrainedIsComplete
  <2>0. \A e \in Entries : outcome[e] # "open"
    BY AllDoneSettlesAll DEF IInv, PhaseInv
  <2>1. Settled = Entries BY <2>0 DEF Settled
  <2>2. completed = Total BY <2>1, EntriesFinite DEF IInv, CountersAgree
  <2>3. created = stored
    BY <2>0 DEF IInv, FileInv, TypeOK, SettledAs
  <2> QED BY <2>2, <2>3 DEF IInv, FileInv
<1> QED BY <1>1, InductiveInvariant, PTL

(* Until the import throws, no animated sticker reaches conversion without an
   open renderer. *)
THEOREM RendererCorrect == Spec => []RendererOpenForConversion
<1>1. IInv => RendererOpenForConversion
  BY DEF IInv, TypeOK, PhaseInv, RendererInv, RendererOpenForConversion, Holding
<1> QED BY <1>1, InductiveInvariant, PTL

(* The job row never claims more progress than this attempt made, and shows
   this attempt by the time phase 2 starts. *)
THEOREM JobRowCorrect == Spec => []RowShowsThisAttempt
<1>1. IInv => RowShowsThisAttempt
  <2> SUFFICES ASSUME IInv PROVE RowShowsThisAttempt OBVIOUS
  <2>1. jobRow.completed <= completed /\ jobRow.failed <= failedCount BY DEF IInv, ReportInv
  <2>2. ASSUME phase = "drained"
        PROVE  /\ jobRow.completed # Unwritten
               /\ SettledAs("created") \union SettledAs("failed") # {} => jobRow.failed # Unwritten
    <3>1. \A w \in Workers : pc[w] = "done" BY <2>2 DEF IInv, PhaseInv
    <3>2. \A e \in Entries : outcome[e] # "open" BY <3>1, AllDoneSettlesAll
    <3>3. Settled # {} BY <3>2, WorkerTypes DEF Settled
    <3> QED BY <3>1, <3>3 DEF IInv, WrittenInv
  <2> QED BY <2>1, <2>2 DEF RowShowsThisAttempt
<1> QED BY <1>1, InductiveInvariant, PTL

(***************************************************************************)
(* ImportPool implements SetSync.                                          *)
(***************************************************************************)
LEMMA StepRefines ==
  ASSUME IInv, NEW w \in Workers, Step(w) PROVE [Abstract!Next]_(Abstract!vars)
<1> DEFINE e == at[w]
<1> USE DEF IInv, TypeOK, ClaimInv, FileInv, PhaseInv, Holding
<1>0. e \in Entries /\ Abstract!Entries = Entries /\ (pc[w] # "done" => phase # "drained")
  BY DEF Abstract!Entries, Entries
<1>1. ASSUME NEW i \in Entries, Abstract!Settle(i) \/ Abstract!Store(i)
      PROVE  Abstract!Next
  BY <1>0, <1>1 DEF Abstract!Next
<1>2. CASE Skip(w)
  <2>1. nextIndex \in Entries /\ outcome[nextIndex] = "open" /\ nextIndex \notin stored
    BY <1>2, PoolAssumption DEF Skip, TakeEntry, Entries
  <2>2. Abstract!Settle(nextIndex)
    BY <1>0, <1>2, <2>1 DEF Skip, TakeEntry, SettleAs, GoTo, ConversionDisabled, host,
       Abstract!Settle, Abstract!Allowed
  <2> QED BY <1>1, <2>1, <2>2
<1>3. CASE FoundRow(w)
  <2>1. Abstract!Settle(e)
    BY <1>0, <1>3 DEF FoundRow, SettleAs, host, Abstract!Settle, Abstract!Allowed
  <2> QED BY <1>0, <1>1, <2>1
<1>4. CASE GetFileFails(w) \/ ConversionFails(w)
  <2>1. Abstract!Settle(e)
    BY <1>0, <1>4 DEF GetFileFails, ConversionFails, FailAs, SettleAs, host, Abstract!Settle,
       Abstract!Allowed
  <2> QED BY <1>0, <1>1, <2>1
<1>5. CASE FfmpegMissing(w) \/ TakenForMissingChromium(w)
  <2>1. Abstract!Settle(e)
    BY <1>0, <1>5 DEF FfmpegMissing, TakenForMissingChromium, SettleAs, host, Abstract!Settle,
       Abstract!Allowed
  <2> QED BY <1>0, <1>1, <2>1
<1>6. CASE RecordFile(w)
  <2>1. Abstract!Settle(e)
    BY <1>0, <1>6 DEF RecordFile, SettleAs, host, Abstract!Settle, Abstract!Allowed
  <2> QED BY <1>0, <1>1, <2>1
<1>7. CASE SaveFile(w)
  <2>1. Abstract!Store(e) BY <1>0, <1>7 DEF SaveFile, host, Abstract!Store
  <2> QED BY <1>0, <1>1, <2>1
<1>8. CASE Lookup(w) \/ NoRow(w) \/ GotFilePath(w) \/ Downloaded(w) \/ Converted(w)
           \/ Reported(w) \/ WorkerEnds(w)
  BY <1>8 DEF Lookup, NoRow, GotFilePath, Downloaded, Converted, Reported, WorkerEnds, host,
     Abstract!vars
<1> QED BY <1>2, <1>3, <1>4, <1>5, <1>6, <1>7, <1>8 DEF Step

(* The pool, with any number of workers, does what SetSync promises. *)
THEOREM Implementation == Spec => ImplementsSetSync
<1>1. Init => Abstract!Init
  BY DEF Init, Abstract!Init, Inputs, Kinds, RowStates, Entries, Abstract!Inputs,
         Abstract!Kinds, Abstract!RowStates, Abstract!Entries
<1>2. IInv /\ [Next]_vars => [Abstract!Next]_(Abstract!vars)
  <2> SUFFICES ASSUME IInv, [Next]_vars PROVE [Abstract!Next]_(Abstract!vars) OBVIOUS
  <2>1. ASSUME NEW w \in Workers, Step(w) PROVE [Abstract!Next]_(Abstract!vars)
    BY <2>1, StepRefines
  <2>2. ASSUME NEW w \in Workers, Throw(w) PROVE [Abstract!Next]_(Abstract!vars)
    <3>1. phase # "drained" BY <2>2 DEF IInv, PhaseInv, Throw
    <3>2. CASE phase = "pool"
      BY <2>2, <3>2 DEF Throw, host, Abstract!Next, Abstract!GiveUp
    <3>3. CASE phase = "threw"
      BY <2>2, <3>3 DEF Throw, host, Abstract!vars
    <3> QED BY <3>1, <3>2, <3>3 DEF IInv, TypeOK
  <2>3. CASE Drain
    <3>1. \A e \in Entries : outcome'[e] # "open"
      <4>1. \A w \in Workers : pc[w] = "done" BY <2>3 DEF Drain
      <4> QED BY <2>3, <4>1, AllDoneSettlesAll DEF Drain
    <3>2. Abstract!Drain
      BY <2>3, <3>1 DEF Drain, host, Abstract!Drain, Abstract!Entries, Entries
    <3> QED BY <3>2 DEF Abstract!Next
  <2>4. CASE UNCHANGED vars BY <2>4 DEF vars, Abstract!vars
  <2> QED BY <2>1, <2>2, <2>3, <2>4 DEF Next
<1> QED BY <1>1, <1>2, InductiveInvariant, PTL DEF Spec, ImplementsSetSync, Abstract!Spec
=============================================================================
