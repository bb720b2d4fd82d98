--------------------------- MODULE McpGateway_proofs ---------------------------
(***************************************************************************)
(* Theorems about McpGateway, for any finite number of requests and cache  *)
(* entries and any bound on the changes of the settings.                   *)
(***************************************************************************)
EXTENDS McpGateway, FiniteSetTheorems, TLAPS

USE FiniteAssumption, NoneAssumption, ChangesAssumption

-----------------------------------------------------------------------------
(* The stored settings.                                                    *)

SettingsOK ==
  /\ stored \in Configs /\ errorOf \in Versions /\ cache \in Configs
  /\ changes \in Versions /\ stored.ver <= changes /\ stored.conf <= stored.ver
  /\ saver \in {"idle", "saved"}

LEMMA InitSettings == Init => SettingsOK
BY DEF Init, SettingsOK, Configs, Errors, Versions

\* SetMCPConnectorVerification stores an error only with the version that the
\* caller observed it on, and only if its precondition held.
LEMMA VerifyFacts ==
  ASSUME SettingsOK, NEW ver \in Versions, NEW expected, NEW error \in Errors,
         Verify(ver, expected, error), saver' = saver
  PROVE  /\ SettingsOK'
         /\ \/ stored' = stored /\ errorOf' = errorOf
            \/ /\ stored.ver = ver /\ stored.error \in expected
               /\ stored'.ver = ver /\ stored'.conf = stored.conf
               /\ stored'.error = error /\ (error # "none" => errorOf' = ver)
<1> USE DEF SettingsOK, Configs
<1>1. 0 \in Versions /\ changes' = changes
  BY DEF Versions, Verify
<1>2. CASE stored' = stored /\ errorOf' = errorOf
  <2>1. cache' \in Configs
    BY <1>2 DEF Verify, Store
  <2> QED
    BY <1>1, <1>2, <2>1
<1>3. CASE ~Refused(ver, expected) /\ Store([stored EXCEPT !.error = error], ver)
  <2>1. /\ stored' \in Configs /\ cache' = stored' /\ stored'.ver = stored.ver
        /\ stored'.conf = stored.conf /\ stored'.error = error
    BY <1>3 DEF Store
  <2>2. errorOf' = IF error = "none" THEN 0 ELSE ver
    BY <1>3, <2>1 DEF Store, Observed
  <2>3. stored.ver = ver /\ stored.error \in expected
    BY <1>3 DEF Refused
  <2>4. SettingsOK'
    BY <1>1, <2>1, <2>2
  <2> QED
    BY <2>1, <2>2, <2>3, <2>4
<1> QED
  BY <1>2, <1>3 DEF Verify

\* A save clears the error when it changes the configuration, and keeps it with
\* the version it was observed on when it does not; another replica's outcome is
\* of the version that is stored.
LEMMA SaveFacts ==
  ASSUME SettingsOK, Save \/ OtherReplica
  PROVE  /\ SettingsOK'
         /\ \/ stored'.error = "none"
            \/ errorOf' = stored'.ver
            \/ /\ stored.error # "none" /\ errorOf' = errorOf
               /\ stored'.conf = stored.conf /\ stored.ver <= stored'.ver
<1> USE DEF SettingsOK, Configs
<1>1. PICK v \in Nat, c \in Nat, n \in Nat :
        v = stored.ver /\ c = stored.conf /\ n = changes
  BY DEF Versions
<1>2. n < MaxChanges /\ changes' = n + 1 /\ changes' \in Versions /\ v <= n
      /\ v + 1 \in Versions /\ v + 1 <= changes' /\ c <= v /\ 0 \in Versions
  BY <1>1 DEF Save, OtherReplica, Change, Versions
<1>3. saver' \in {"idle", "saved"}
  BY DEF Save, OtherReplica
<1>4. stored' \in Patches \cup Verified
  BY DEF Save, OtherReplica, Store
<1>5. cache' \in {cache, stored'}
  BY DEF Save, OtherReplica, Store
<1>6. /\ stored' \in Configs /\ stored'.ver \in {v, v + 1}
      /\ stored'.conf \in {c, v + 1} /\ (stored'.conf = v + 1 => stored'.ver = v + 1)
  <2>1. "none" \in Errors
    BY DEF Errors
  <2> QED
    BY <1>1, <1>2, <1>4, <2>1 DEF Patches, Verified, NextVersion
<1>7. stored'.conf <= stored'.ver /\ stored'.ver <= changes' /\ v <= stored'.ver
  BY <1>1, <1>2, <1>6
<1>8. \/ Observed(errorOf) /\ stored' \in Patches
      \/ Observed(stored.ver) /\ stored' \in Verified
  BY DEF Save, OtherReplica, Store
<1>9. errorOf' \in Versions
  BY <1>2, <1>8 DEF Observed
<1>10. SettingsOK'
  BY <1>2, <1>3, <1>5, <1>6, <1>7, <1>9
<1>11. CASE Observed(errorOf) /\ stored' \in Patches
  <2>1. \/ stored'.error = "none"
        \/ stored'.error = stored.error /\ stored'.conf = stored.conf
    BY <1>11 DEF Patches
  <2> QED
    BY <1>1, <1>7, <1>10, <1>11, <2>1 DEF Observed
<1>12. CASE Observed(stored.ver) /\ stored' \in Verified
  <2>1. stored'.ver = stored.ver
    BY <1>12 DEF Verified
  <2> QED
    BY <1>10, <1>12, <2>1 DEF Observed
<1> QED
  BY <1>8, <1>11, <1>12

-----------------------------------------------------------------------------
(* Entries.                                                                *)

EntryRecord ==
  [phase : {"free", "building", "recording", "writing", "ready"},
   ver : Versions, onRecord : BOOLEAN, failed : BOOLEAN,
   session : {"none", "open", "closing", "closed"}, missing : BOOLEAN,
   refs : Nat, retired : BOOLEAN,
   rebinding : BOOLEAN, write : {"none", "clear", "error"}]

\* A built entry that did not fail has an open session for as long as it is
\* used or not retired.
EntryOK(e) ==
  /\ e \in EntryRecord
  /\ e.phase = "free" => e = FreeEntry
  /\ e.phase = "building" => e.session = "none" /\ ~e.failed /\ ~e.rebinding
  /\ e.phase \notin {"free", "building"} /\ ~e.failed /\ (e.refs > 0 \/ ~e.retired) =>
       e.session = "open"

\* What the holders of an entry rely on when it goes from e to x.
Keeps(e, x) ==
  e.refs > 0 /\ x.refs > 0 =>
    /\ x.ver = e.ver
    /\ e.phase # "building" /\ ~e.failed => x.phase # "building" /\ ~x.failed

Busy(e) == e.phase = "building" \/ e.session \in {"open", "closing"}

LEMMA FreeEntryOK == EntryOK(FreeEntry) /\ ~Busy(FreeEntry) /\ ~FreeEntry.rebinding
                     /\ FreeEntry.refs = 0
<1>1. 0 \in Versions
  BY DEF Versions
<1>2. FreeEntry \in EntryRecord
  BY <1>1 DEF FreeEntry, EntryRecord
<1>3. /\ FreeEntry.phase = "free" /\ FreeEntry.session = "none"
      /\ ~FreeEntry.rebinding /\ FreeEntry.refs = 0
  BY DEF FreeEntry
<1> QED
  BY <1>2, <1>3 DEF EntryOK, Busy

\* closeLocked changes the session of an entry, and nothing else of interest.
LEMMA ClosingFacts ==
  ASSUME NEW e \in EntryRecord
  PROVE  /\ Closing(e) \in EntryRecord
         /\ Closing(e).phase = e.phase /\ Closing(e).ver = e.ver
         /\ Closing(e).failed = e.failed /\ Closing(e).refs = e.refs
         /\ Closing(e).retired = e.retired /\ Closing(e).rebinding = e.rebinding
         /\ Closing(e).session = IF e.session = "open" THEN "closing" ELSE e.session
<1>1. CASE e.session = "open"
  <2>1. Closing(e) = [e EXCEPT !.session = "closing", !.missing = FALSE]
    BY <1>1 DEF Closing
  <2> QED
    BY <1>1, <2>1 DEF EntryRecord
<1>2. CASE e.session # "open"
  BY <1>2 DEF Closing
<1> QED
  BY <1>1, <1>2

\* Closing the session of a retired entry that nobody uses.
Settle(x) == IF x.retired /\ x.refs = 0 THEN Closing(x) ELSE x

LEMMA SettleFacts ==
  ASSUME NEW e, EntryOK(e), e.phase # "free", NEW x \in EntryRecord,
         x.phase = e.phase, x.ver = e.ver, x.failed = e.failed, x.session = e.session,
         x.rebinding = e.rebinding, x.refs <= e.refs, e.retired => x.retired
  PROVE  /\ EntryOK(Settle(x)) /\ Keeps(e, Settle(x))
         /\ Settle(x).refs = x.refs /\ Settle(x).rebinding = e.rebinding
         /\ Settle(x).retired = x.retired
         /\ Settle(x).phase = e.phase /\ Settle(x).failed = e.failed /\ Settle(x).ver = e.ver
         /\ Busy(Settle(x)) <=> Busy(e)
<1> DEFINE y == Settle(x)
<1>1. /\ y \in EntryRecord
      /\ y.phase = x.phase /\ y.ver = x.ver /\ y.failed = x.failed
      /\ y.refs = x.refs /\ y.retired = x.retired /\ y.rebinding = x.rebinding
  BY ClosingFacts DEF Settle
<1>2. y.session = x.session \/ (x.session = "open" /\ y.session = "closing" /\ y.retired /\ y.refs = 0)
  BY ClosingFacts, <1>1 DEF Settle
<1>3. e.refs \in Nat /\ x.refs \in Nat
  BY DEF EntryOK, EntryRecord
<1> HIDE DEF y
<1>4. EntryOK(y)
  BY <1>1, <1>2, <1>3 DEF EntryOK
<1> QED
  BY <1>1, <1>2, <1>3, <1>4 DEF EntryOK, Keeps, Busy, y

\* Retiring an entry touches nothing but its session and its fate.
LEMMA RetiredFacts ==
  ASSUME NEW e, EntryOK(e), e.phase # "free"
  PROVE  /\ EntryOK(Retired(e)) /\ Keeps(e, Retired(e))
         /\ Retired(e).refs = e.refs /\ Retired(e).phase = e.phase
         /\ Retired(e).failed = e.failed /\ Retired(e).rebinding = e.rebinding
         /\ Retired(e).ver = e.ver
         /\ Busy(Retired(e)) <=> Busy(e)
<1> DEFINE x == [e EXCEPT !.retired = TRUE]
<1>1. /\ x \in EntryRecord /\ x.phase = e.phase /\ x.ver = e.ver /\ x.failed = e.failed
      /\ x.session = e.session /\ x.rebinding = e.rebinding /\ x.refs = e.refs /\ x.retired
  BY DEF EntryOK, EntryRecord
<1>2. Retired(e) = Settle(x)
  BY DEF Retired, Settle
<1>3. e.refs <= e.refs
  BY DEF EntryOK, EntryRecord
<1> HIDE DEF x
<1> QED
  BY <1>1, <1>2, <1>3, SettleFacts

LEMMA TidyFacts ==
  ASSUME NEW e, EntryOK(e), e.phase # "free"
  PROVE  /\ EntryOK(Tidy(e)) /\ Keeps(e, Tidy(e))
         /\ Tidy(e).refs = e.refs /\ Tidy(e).rebinding = e.rebinding
         /\ Busy(Tidy(e)) <=> Busy(e)
         /\ e.refs > 0 \/ (~e.failed /\ ~e.retired) => Tidy(e) = e
<1>1. CASE Dead(e)
  BY <1>1, FreeEntryOK DEF EntryOK, EntryRecord, Keeps, Busy, Tidy, Dead
<1>2. CASE ~Dead(e)
  BY <1>2 DEF Tidy, Keeps
<1>3. e.refs > 0 \/ (~e.failed /\ ~e.retired) => ~Dead(e)
  BY DEF Dead, EntryOK, EntryRecord
<1> QED
  BY <1>1, <1>2, <1>3 DEF Tidy

\* Giving back one of the counts on an entry; the last one of a retired entry
\* lets its session close.
LEMMA ReleasedFacts ==
  ASSUME NEW e, EntryOK(e), e.refs > 0
  PROVE  /\ EntryOK(Released(e)) /\ Keeps(e, Released(e))
         /\ Released(e).refs = e.refs - 1 /\ Released(e).rebinding = e.rebinding
         /\ Busy(Released(e)) <=> Busy(e)
         /\ ~e.failed /\ ~e.retired =>
              ~Released(e).failed /\ ~Released(e).retired /\ Released(e).phase = e.phase
<1> DEFINE x == [e EXCEPT !.refs = @ - 1]
           y == Settle(x)
<1>1. e.phase # "free"
  BY DEF EntryOK, FreeEntry
<1>2. /\ x \in EntryRecord /\ x.phase = e.phase /\ x.ver = e.ver /\ x.failed = e.failed
      /\ x.session = e.session /\ x.rebinding = e.rebinding /\ x.retired = e.retired
      /\ x.refs = e.refs - 1 /\ x.refs <= e.refs /\ (e.retired => x.retired)
  BY DEF EntryOK, EntryRecord
<1>3. Released(e) = Tidy(y)
  BY DEF Released, Settle
<1> HIDE DEF x
<1>4. /\ EntryOK(y) /\ Keeps(e, y) /\ y.refs = e.refs - 1 /\ y.rebinding = e.rebinding
      /\ y.phase = e.phase /\ y.failed = e.failed /\ y.retired = e.retired /\ y.ver = e.ver
      /\ Busy(y) <=> Busy(e)
  BY <1>1, <1>2, SettleFacts
<1> HIDE DEF y
<1> QED
  BY <1>1, <1>3, <1>4, TidyFacts DEF Keeps, EntryOK, EntryRecord

-----------------------------------------------------------------------------
(* The inductive invariant.                                                *)

Holding(r) == req[r].at \in {"waiting", "using", "failing"}

Holders(i) == {r \in Requests : Holding(r) /\ req[r].entry = i}

EntriesOK == entry \in [Ids -> EntryRecord] /\ \A i \in Ids : EntryOK(entry[i])

\* The entry in the map is one that the next request may share.
CurrentOK ==
  /\ current \in Ids \cup {None} /\ stopped \in BOOLEAN
  /\ failure \in Versions \cup {None}
  /\ current # None =>
       entry[current].phase # "free" /\ ~entry[current].failed /\ ~entry[current].retired
  /\ stopped => current = None

\* The count of an entry is the number of requests that hold it.
RefsOK == \A i \in Ids : entry[i].refs = Cardinality(Holders(i))

Sound(r) ==
  /\ req[r].entry \in Ids
  /\ entry[req[r].entry].ver = req[r].ver
  /\ req[r].at # "waiting" =>
       entry[req[r].entry].phase # "building" /\ ~entry[req[r].entry].failed

HoldOK ==
  /\ req \in [Requests -> RequestType]
  /\ \A r \in Requests : Holding(r) => Sound(r)

TestOK == test \in [at : {"idle", "testing", "verified"}, ver : Versions]

BusyIds == {i \in Ids : Busy(entry[i])}
RebindIds == {i \in Ids : entry[i].rebinding}

\* The WaitGroup counts the sessions and the rebuilds in progress.
OpenOK == open = Cardinality(BusyIds) + Cardinality(RebindIds)

Core == EntriesOK /\ RefsOK /\ HoldOK /\ OpenOK

Inv == SettingsOK /\ CurrentOK /\ TestOK /\ Core

LEMMA FiniteSubsets ==
  /\ \A T \in SUBSET Requests :
       /\ IsFiniteSet(T) /\ Cardinality(T) \in 0 .. Cardinality(Requests)
       /\ T # {} => Cardinality(T) > 0
  /\ \A T \in SUBSET Ids : IsFiniteSet(T) /\ Cardinality(T) \in Nat
BY FS_Subset, FS_CardinalityType, FS_EmptySet

\* Who holds an entry keeps it from being counted out.
LEMMA HeldIsCounted ==
  ASSUME RefsOK, NEW i \in Ids, NEW r \in Requests, r \in Holders(i)
  PROVE  entry[i].refs > 0
BY FiniteSubsets DEF RefsOK, Holders

LEMMA InitInv == Init => Inv
<1> SUFFICES ASSUME Init PROVE Inv
  OBVIOUS
<1>1. SettingsOK
  BY InitSettings
<1>2. entry = [i \in Ids |-> FreeEntry] /\ EntriesOK
  BY FreeEntryOK DEF Init, EntriesOK, EntryOK
<1>3. CurrentOK
  BY DEF Init, CurrentOK
<1>4. \A i \in Ids : Holders(i) = {}
  BY DEF Init, Holders, Holding, Idle
<1>5. RefsOK
  BY <1>2, <1>4, FS_EmptySet, FreeEntryOK DEF RefsOK
<1>6. HoldOK
  BY DEF Init, HoldOK, Holding, Idle, RequestType, Versions
<1>7. TestOK
  BY DEF Init, TestOK, NoTest, Versions
<1>8. BusyIds = {} /\ RebindIds = {}
  BY <1>2, FreeEntryOK DEF BusyIds, RebindIds
<1>9. OpenOK
  BY <1>8, FS_EmptySet DEF OpenOK, Init
<1> QED
  BY <1>1, <1>2, <1>3, <1>5, <1>6, <1>7, <1>9 DEF Inv, Core

\* What a holder relies on survives a step that keeps the entries in order and
\* moves no request that holds one to another.
SameHold(r) ==
  /\ Holding(r) /\ req'[r].entry = req[r].entry /\ req'[r].ver = req[r].ver
  /\ req'[r].at # "waiting" => req[r].at # "waiting"

LEMMA EntriesStep ==
  ASSUME EntriesOK, RefsOK, HoldOK, req' \in [Requests -> RequestType],
         entry' \in [Ids -> EntryRecord],
         \A i \in Ids : EntryOK(entry'[i]) /\ Keeps(entry[i], entry'[i]),
         \A i \in Ids : entry'[i].refs = Cardinality(Holders(i)'),
         \A r \in Requests : Holding(r)' => SameHold(r) \/ Sound(r)'
  PROVE  EntriesOK' /\ RefsOK' /\ HoldOK'
<1>1. EntriesOK'
  BY DEF EntriesOK
<1>2. RefsOK'
  BY DEF RefsOK
<1>3. ASSUME NEW r \in Requests, Holding(r)', SameHold(r)
      PROVE  Sound(r)'
  <2> DEFINE i == req[r].entry
  <2>1. Holding(r) /\ req'[r].entry = i /\ req'[r].ver = req[r].ver /\ i \in Ids
    BY <1>3 DEF HoldOK, Sound, SameHold
  <2>2. entry[i].refs > 0
    BY <2>1, HeldIsCounted DEF Holders
  <2>3. entry'[i].refs > 0
    <3>1. r \in Holders(i)' /\ Holders(i)' \in SUBSET Requests
      BY <1>3, <2>1 DEF Holders
    <3> QED
      BY <2>1, <3>1, FiniteSubsets
  <2>4. Keeps(entry[i], entry'[i])
    BY <2>1
  <2> QED
    BY <1>3, <2>1, <2>2, <2>3, <2>4 DEF HoldOK, Keeps, Sound, SameHold
<1>4. HoldOK'
  BY <1>3 DEF HoldOK
<1> QED
  BY <1>1, <1>2, <1>4

LEMMA CountStep ==
  ASSUME NEW S, IsFiniteSet(S), NEW T, NEW i, NEW b \in BOOLEAN,
         T = IF b THEN S \cup {i} ELSE S \ {i}
  PROVE  Cardinality(T) = Cardinality(S) + (IF b THEN 1 ELSE 0) - (IF i \in S THEN 1 ELSE 0)
<1>1. Cardinality(S) \in Nat
  BY FS_CardinalityType
<1>2. CASE b
  <2>1. T = S \cup {i}
    BY <1>2
  <2>2. Cardinality(S \cup {i}) = IF i \in S THEN Cardinality(S) ELSE Cardinality(S) + 1
    BY FS_AddElement
  <2> QED
    BY <1>1, <1>2, <2>1, <2>2
<1>3. CASE ~b
  <2>1. T = S \ {i}
    BY <1>3
  <2>2. Cardinality(S \ {i}) = IF i \in S THEN Cardinality(S) - 1 ELSE Cardinality(S)
    BY FS_RemoveElement
  <2> QED
    BY <1>1, <1>3, <2>1, <2>2
<1> QED
  BY <1>2, <1>3

\* The WaitGroup's two terms when one entry changes.
LEMMA OneEntryCount ==
  ASSUME EntriesOK, OpenOK, NEW i \in Ids, NEW x, EntryOK(x), entry' = [entry EXCEPT ![i] = x],
         open' = open + (IF Busy(x) THEN 1 ELSE 0) + (IF x.rebinding THEN 1 ELSE 0)
                      - (IF Busy(entry[i]) THEN 1 ELSE 0)
                      - (IF entry[i].rebinding THEN 1 ELSE 0)
  PROVE  OpenOK'
<1>1. \A j \in Ids : entry'[j] = IF j = i THEN x ELSE entry[j]
  BY DEF EntriesOK
<1> DEFINE busy == Busy(x)
           rebinding == x.rebinding
<1>2. BusyIds' = IF busy THEN BusyIds \cup {i} ELSE BusyIds \ {i}
  BY <1>1 DEF BusyIds
<1>3. RebindIds' = IF rebinding THEN RebindIds \cup {i} ELSE RebindIds \ {i}
  BY <1>1 DEF RebindIds
<1>4. (i \in BusyIds <=> Busy(entry[i])) /\ (i \in RebindIds <=> entry[i].rebinding)
  BY DEF BusyIds, RebindIds
<1>5. /\ IsFiniteSet(BusyIds) /\ IsFiniteSet(RebindIds)
      /\ Cardinality(BusyIds) \in Nat /\ Cardinality(RebindIds) \in Nat
  BY FiniteSubsets DEF BusyIds, RebindIds
<1>6. Cardinality(BusyIds') = Cardinality(BusyIds)
        + (IF Busy(x) THEN 1 ELSE 0) - (IF Busy(entry[i]) THEN 1 ELSE 0)
  <2>1. busy \in BOOLEAN
    BY DEF Busy
  <2> QED
    BY <1>2, <1>4, <1>5, <2>1, CountStep
<1>7. Cardinality(RebindIds') = Cardinality(RebindIds)
        + (IF x.rebinding THEN 1 ELSE 0) - (IF entry[i].rebinding THEN 1 ELSE 0)
  <2>1. rebinding \in BOOLEAN
    BY DEF EntryOK, EntryRecord
  <2> QED
    BY <1>3, <1>4, <1>5, <2>1, CountStep
<1> QED
  BY <1>5, <1>6, <1>7 DEF OpenOK

-----------------------------------------------------------------------------
(* Steps on the entries and their holders.                                 *)

\* Requests come and go without an entry.
SameHolders ==
  /\ req' \in [Requests -> RequestType]
  /\ \A r \in Requests : (Holding(r)' <=> Holding(r)) /\ (Holding(r) => req'[r] = req[r])

LEMMA SameHoldersFacts ==
  ASSUME SameHolders
  PROVE  /\ \A i \in Ids : Holders(i)' = Holders(i)
         /\ \A r \in Requests : Holding(r)' => SameHold(r)
BY DEF SameHolders, SameHold, Holders

LEMMA RequestSteps ==
  ASSUME HoldOK, NEW r \in Requests, ~Holding(r), NEW x \in RequestType,
         req' = [req EXCEPT ![r] = x], x.at \in {"idle", "asked"}
  PROVE  SameHolders
BY DEF SameHolders, Holding, HoldOK

LEMMA QuietStep ==
  ASSUME Core, SameHolders, entry' = entry, open' = open
  PROVE  Core'
<1>1. \A i \in Ids : Keeps(entry[i], entry'[i])
  BY DEF Keeps
<1>2. EntriesOK' /\ RefsOK' /\ HoldOK'
  BY <1>1, SameHoldersFacts, EntriesStep DEF Core, EntriesOK, RefsOK, SameHolders
<1>3. OpenOK'
  BY DEF Core, OpenOK, BusyIds, RebindIds
<1> QED
  BY <1>2, <1>3 DEF Core

\* One entry changes, and no request.
LEMMA OneEntryStep ==
  ASSUME Core, req' = req, NEW i \in Ids, NEW x,
         entry' = [entry EXCEPT ![i] = x],
         EntryOK(x), Keeps(entry[i], x), x.refs = entry[i].refs,
         open' = open + (IF Busy(x) THEN 1 ELSE 0) + (IF x.rebinding THEN 1 ELSE 0)
                      - (IF Busy(entry[i]) THEN 1 ELSE 0)
                      - (IF entry[i].rebinding THEN 1 ELSE 0)
  PROVE  Core'
<1>1. entry' \in [Ids -> EntryRecord]
  BY DEF Core, EntriesOK, EntryOK
<1>2. ASSUME NEW j \in Ids
      PROVE  EntryOK(entry'[j]) /\ Keeps(entry[j], entry'[j]) /\ entry'[j].refs = entry[j].refs
  BY DEF Core, EntriesOK, Keeps
<1>3. SameHolders
  BY DEF Core, SameHolders, HoldOK, Holding
<1>4. EntriesOK' /\ RefsOK' /\ HoldOK'
  BY <1>1, <1>2, <1>3, SameHoldersFacts, EntriesStep DEF Core, RefsOK, SameHolders
<1>5. OpenOK'
  BY OneEntryCount DEF Core
<1> QED
  BY <1>4, <1>5 DEF Core

\* The binding in the map retires.
LEMMA RetireCurrentStep ==
  ASSUME Core, CurrentOK, SameHolders, entry' = RetireCurrent, open' = open
  PROVE  Core'
<1>1. ASSUME NEW i \in Ids
      PROVE  /\ EntryOK(entry'[i]) /\ Keeps(entry[i], entry'[i])
             /\ entry'[i].refs = entry[i].refs /\ entry'[i].rebinding = entry[i].rebinding
             /\ Busy(entry'[i]) <=> Busy(entry[i])
  <2>1. EntryOK(entry[i]) /\ entry'[i] = IF i = current THEN Retired(entry[i]) ELSE entry[i]
    BY DEF Core, EntriesOK, RetireCurrent
  <2>2. i = current => entry[i].phase # "free"
    BY DEF CurrentOK
  <2>3. Keeps(entry[i], entry[i])
    BY DEF Keeps
  <2> QED
    BY <2>1, <2>2, <2>3, RetiredFacts
<1>2. entry' \in [Ids -> EntryRecord]
  BY <1>1 DEF RetireCurrent, EntryOK
<1>3. EntriesOK' /\ RefsOK' /\ HoldOK'
  BY <1>1, <1>2, SameHoldersFacts, EntriesStep DEF Core, RefsOK, SameHolders
<1>4. BusyIds' = BusyIds /\ RebindIds' = RebindIds
  BY <1>1 DEF BusyIds, RebindIds
<1> QED
  BY <1>3, <1>4 DEF Core, OpenOK

\* A holder gives its count back.
LEMMA ReleaseStep ==
  ASSUME Core, NEW r \in Requests, Holding(r), NEW i, i = req[r].entry,
         req' = [req EXCEPT ![r] = Idle],
         entry' = [entry EXCEPT ![i] = Released(@)], open' = open
  PROVE  Core'
<1>1. i \in Ids /\ r \in Holders(i)
  BY DEF Core, HoldOK, Sound, Holders
<1>2. entry[i].refs > 0 /\ EntryOK(entry[i])
  BY <1>1, HeldIsCounted DEF Core, EntriesOK
<1>3. entry'[i] = Released(entry[i]) /\ \A j \in Ids \ {i} : entry'[j] = entry[j]
  BY <1>1 DEF Core, EntriesOK
<1>4. Idle \in RequestType /\ Idle.at = "idle"
  BY DEF Idle, RequestType, Versions
<1>5. req' \in [Requests -> RequestType]
  BY <1>4 DEF Core, HoldOK
<1>6. Holders(i)' = Holders(i) \ {r} /\ \A j \in Ids \ {i} : Holders(j)' = Holders(j)
  <2>1. ~Holding(r)' /\ \A q \in Requests \ {r} : req'[q] = req[q]
    BY <1>4 DEF Core, HoldOK, Holding
  <2>2. \A q \in Requests \ {r} : Holding(q)' <=> Holding(q)
    BY <2>1 DEF Holding
  <2> QED
    BY <2>1, <2>2 DEF Holders
<1>7. Cardinality(Holders(i)') = Cardinality(Holders(i)) - 1
  BY <1>1, <1>6, FiniteSubsets, FS_RemoveElement DEF Holders
<1>8. ASSUME NEW j \in Ids
      PROVE  /\ EntryOK(entry'[j]) /\ Keeps(entry[j], entry'[j])
             /\ entry'[j].refs = Cardinality(Holders(j)')
             /\ entry'[j].rebinding = entry[j].rebinding
             /\ Busy(entry'[j]) <=> Busy(entry[j])
  <2>1. CASE j = i
    <3>1. entry[i].refs = Cardinality(Holders(i))
      BY <1>1 DEF Core, RefsOK
    <3> QED
      BY <1>2, <1>3, <1>7, <2>1, <3>1, ReleasedFacts
  <2>2. CASE j # i
    BY <1>3, <1>6, <2>2 DEF Core, RefsOK, EntriesOK, Keeps
  <2> QED
    BY <2>1, <2>2
<1>9. entry' \in [Ids -> EntryRecord]
  BY <1>3, <1>8 DEF Core, EntriesOK, EntryOK
<1>10. \A q \in Requests : Holding(q)' => SameHold(q)
  BY <1>4 DEF Core, HoldOK, Holding, SameHold
<1>11. EntriesOK' /\ RefsOK' /\ HoldOK'
  BY <1>5, <1>8, <1>9, <1>10, EntriesStep DEF Core
<1>12. BusyIds' = BusyIds /\ RebindIds' = RebindIds
  BY <1>8 DEF BusyIds, RebindIds
<1> QED
  BY <1>11, <1>12 DEF Core, OpenOK

\* A request counts itself in on an entry, i.
LEMMA JoinStep ==
  ASSUME Core, NEW r \in Requests, ~Holding(r), NEW i \in Ids,
         req' = Waiting(r, i),
         entry' \in [Ids -> EntryRecord],
         \A j \in Ids : EntryOK(entry'[j]) /\ Keeps(entry[j], entry'[j]),
         \A j \in Ids : entry'[j].refs = IF j = i THEN entry[j].refs + 1 ELSE entry[j].refs,
         entry'[i].ver = req[r].ver
  PROVE  EntriesOK' /\ RefsOK' /\ HoldOK'
<1>1. /\ req' \in [Requests -> RequestType]
      /\ req'[r].at = "waiting" /\ req'[r].entry = i /\ req'[r].ver = req[r].ver
      /\ \A q \in Requests \ {r} : req'[q] = req[q]
  BY DEF Core, HoldOK, Waiting, RequestType
<1>2. Holding(r)' /\ \A q \in Requests \ {r} : Holding(q)' <=> Holding(q)
  BY <1>1 DEF Holding
<1>3. ASSUME NEW j \in Ids PROVE entry'[j].refs = Cardinality(Holders(j)')
  <2>1. CASE j = i
    <3>1. Holders(j)' = Holders(j) \cup {r} /\ r \notin Holders(j)
      BY <1>1, <1>2, <2>1 DEF Holders
    <3>2. Cardinality(Holders(j) \cup {r}) = Cardinality(Holders(j)) + 1
      BY <3>1, FiniteSubsets, FS_AddElement DEF Holders
    <3> QED
      BY <2>1, <3>1, <3>2 DEF Core, RefsOK
  <2>2. CASE j # i
    <3>1. Holders(j)' = Holders(j)
      BY <1>1, <1>2, <2>2 DEF Holders
    <3> QED
      BY <2>2, <3>1 DEF Core, RefsOK
  <2> QED
    BY <2>1, <2>2
<1>4. Sound(r)'
  BY <1>1 DEF Sound
<1>5. \A q \in Requests \ {r} : Holding(q)' => SameHold(q)
  BY <1>1, <1>2 DEF SameHold
<1> QED
  BY <1>1, <1>3, <1>4, <1>5, EntriesStep DEF Core

LEMMA SharedFacts ==
  ASSUME NEW e \in EntryRecord, NEW rebind \in BOOLEAN
  PROVE  LET x == Shared(e, rebind)
         IN  /\ x \in EntryRecord /\ x.refs = e.refs + 1
             /\ x.phase = e.phase /\ x.ver = e.ver /\ x.failed = e.failed
             /\ x.retired = e.retired /\ x.session = e.session
             /\ x.rebinding <=> (e.rebinding \/ rebind)
<1> DEFINE n == e.refs + 1
           x == [e EXCEPT !.refs = n, !.rebinding = @ \/ rebind]
<1>1. n \in Nat /\ Shared(e, rebind) = x
  BY DEF EntryRecord, Shared
<1> HIDE DEF n
<1>2. x \in EntryRecord
  BY <1>1 DEF EntryRecord
<1>3. /\ x.refs = n /\ x.phase = e.phase /\ x.ver = e.ver
      /\ x.failed = e.failed /\ x.retired = e.retired /\ x.session = e.session
      /\ x.rebinding <=> (e.rebinding \/ rebind)
  BY <1>1 DEF EntryRecord
<1> QED
  BY <1>1, <1>2, <1>3 DEF n

LEMMA SharesStep ==
  ASSUME Core, CurrentOK, NEW r \in Requests, NEW rebind \in BOOLEAN, AcquireShares(r, rebind)
  PROVE  Core' /\ CurrentOK'
<1> DEFINE e == entry[current]
           x == Shared(e, rebind)
<1>1. current \in Ids /\ EntryOK(e) /\ ~e.failed /\ ~e.retired /\ e.phase # "free"
      /\ e.ver = req[r].ver
  BY DEF AcquireShares, Fits, CurrentOK, Core, EntriesOK
<1>2. /\ ~Holding(r) /\ req' = Waiting(r, current)
      /\ current' = current /\ failure' = failure /\ stopped' = stopped
      /\ entry' = [entry EXCEPT ![current] = x]
  BY DEF AcquireShares, Holding
<1>3. rebind => e.session = "open" /\ ~e.rebinding
  BY DEF AcquireShares, CanRebind
<1>4. /\ x \in EntryRecord /\ x.refs = e.refs + 1
      /\ x.phase = e.phase /\ x.ver = e.ver /\ x.failed = e.failed /\ x.retired = e.retired
      /\ x.session = e.session /\ (x.rebinding <=> (e.rebinding \/ rebind))
  BY <1>1, SharedFacts DEF EntryOK
<1>5. /\ entry'[current] = x /\ \A j \in Ids \ {current} : entry'[j] = entry[j]
  BY <1>1, <1>2 DEF Core, EntriesOK
<1>6. EntryOK(x) /\ Keeps(e, x) /\ (Busy(x) <=> Busy(e))
  <2> HIDE DEF x
  <2>1. e.phase = "building" => ~rebind
    BY <1>1, <1>3 DEF EntryOK
  <2> QED
    BY <1>1, <1>4, <2>1 DEF EntryOK, Keeps, Busy
<1>7. open' = open + (IF Busy(x) THEN 1 ELSE 0) + (IF x.rebinding THEN 1 ELSE 0)
                   - (IF Busy(e) THEN 1 ELSE 0) - (IF e.rebinding THEN 1 ELSE 0)
  <2>1. open \in Int
    BY FiniteSubsets DEF Core, OpenOK, BusyIds, RebindIds
  <2>2. open' = IF rebind THEN open + 1 ELSE open
    BY DEF AcquireShares
  <2> HIDE DEF x, e
  <2>3. CASE rebind
    BY <1>3, <1>4, <1>6, <2>1, <2>2, <2>3
  <2>4. CASE ~rebind
    BY <1>4, <1>6, <2>1, <2>2, <2>4
  <2> QED
    BY <2>3, <2>4
<1> HIDE DEF x
<1>8. OpenOK'
  BY <1>1, <1>2, <1>6, <1>7, OneEntryCount DEF Core
<1>9. ASSUME NEW j \in Ids
      PROVE  /\ EntryOK(entry'[j]) /\ Keeps(entry[j], entry'[j])
             /\ entry'[j].refs = IF j = current THEN entry[j].refs + 1 ELSE entry[j].refs
  BY <1>4, <1>5, <1>6 DEF Core, EntriesOK, Keeps
<1>10. entry' \in [Ids -> EntryRecord]
  BY <1>2, <1>4 DEF Core, EntriesOK
<1>11. EntriesOK' /\ RefsOK' /\ HoldOK'
  BY <1>1, <1>2, <1>4, <1>5, <1>9, <1>10, JoinStep
<1>12. CurrentOK'
  BY <1>1, <1>2, <1>4, <1>5 DEF CurrentOK
<1> QED
  BY <1>8, <1>11, <1>12 DEF Core

LEMMA BuildsStep ==
  ASSUME Core, CurrentOK, NEW r \in Requests, NEW i \in Ids, AcquireBuilds(r, i)
  PROVE  Core' /\ CurrentOK'
<1> DEFINE x == [FreeEntry EXCEPT !.phase = "building", !.refs = 1,
                   !.ver = req[r].ver, !.onRecord = req[r].onRecord]
<1>1. /\ req[r].at = "asked" /\ entry[i] = FreeEntry /\ current' = i /\ open' = open + 1
      /\ entry' = [RetireCurrent EXCEPT ![i] = x]
      /\ req' = Waiting(r, i) /\ stopped = FALSE /\ UNCHANGED <<failure, stopped>>
  BY DEF AcquireBuilds, CurrentOK
<1>2. i # current
  BY <1>1 DEF CurrentOK, FreeEntry
<1>3. FreeEntry \in EntryRecord /\ req[r] \in RequestType
  BY FreeEntryOK DEF EntryOK, Core, HoldOK
<1>4. /\ x \in EntryRecord /\ x.refs = 1 /\ x.phase = "building" /\ x.ver = req[r].ver
      /\ x.session = "none" /\ ~x.failed /\ ~x.rebinding /\ ~x.retired
  BY <1>3 DEF FreeEntry, EntryRecord, RequestType
<1>5. entry[i].refs = 0 /\ ~entry[i].rebinding /\ ~Busy(entry[i])
  BY <1>1, FreeEntryOK
<1> HIDE DEF x
<1>6. EntryOK(x) /\ Busy(x)
  BY <1>4 DEF EntryOK, Busy
<1>7. entry'[i] = x /\ \A j \in Ids \ {i} :
        entry'[j] = IF j = current THEN Retired(entry[j]) ELSE entry[j]
  BY <1>1 DEF RetireCurrent
<1>8. ASSUME NEW j \in Ids \ {i}
      PROVE  /\ EntryOK(entry'[j]) /\ Keeps(entry[j], entry'[j])
             /\ entry'[j].refs = entry[j].refs /\ entry'[j].rebinding = entry[j].rebinding
             /\ Busy(entry'[j]) <=> Busy(entry[j])
  <2>1. EntryOK(entry[j])
    BY DEF Core, EntriesOK
  <2>2. CASE j = current
    BY <1>7, <2>1, <2>2, RetiredFacts DEF CurrentOK
  <2>3. CASE j # current
    BY <1>7, <2>1, <2>3 DEF Keeps
  <2> QED
    BY <2>2, <2>3
<1>9. Keeps(entry[i], entry'[i])
  BY <1>5 DEF Keeps
<1>10. entry' \in [Ids -> EntryRecord]
  <2>1. \A j \in Ids : entry'[j] \in EntryRecord
    BY <1>4, <1>7, <1>8 DEF EntryOK
  <2> QED
    BY <1>1, <2>1 DEF RetireCurrent
<1>11. EntriesOK' /\ RefsOK' /\ HoldOK'
  <2>1. ~Holding(r)
    BY <1>1 DEF Holding
  <2>2. \A j \in Ids : EntryOK(entry'[j]) /\ Keeps(entry[j], entry'[j])
    BY <1>6, <1>7, <1>8, <1>9
  <2>3. \A j \in Ids : entry'[j].refs = IF j = i THEN entry[j].refs + 1 ELSE entry[j].refs
    BY <1>4, <1>5, <1>7, <1>8
  <2> QED
    BY <1>1, <1>4, <1>7, <1>10, <2>1, <2>2, <2>3, JoinStep
<1>12. BusyIds' = BusyIds \cup {i} /\ i \notin BusyIds /\ RebindIds' = RebindIds
  BY <1>4, <1>5, <1>6, <1>7, <1>8 DEF BusyIds, RebindIds
<1>13. OpenOK'
  <2>1. IsFiniteSet(BusyIds) /\ Cardinality(BusyIds) \in Nat /\ Cardinality(RebindIds) \in Nat
    BY FiniteSubsets DEF BusyIds, RebindIds
  <2>2. Cardinality(BusyIds \cup {i}) = Cardinality(BusyIds) + 1
    BY <1>12, <2>1, FS_AddElement
  <2> QED
    BY <1>1, <1>12, <2>1, <2>2 DEF Core, OpenOK
<1>14. CurrentOK'
  BY <1>1, <1>4, <1>7 DEF CurrentOK
<1> QED
  BY <1>11, <1>13, <1>14 DEF Core

\* A whole binding takes the place of a partial one.
LEMMA SwapStep ==
  ASSUME Core, CurrentOK, NEW i \in Ids, NEW j \in Ids,
         NEW partial \in BOOLEAN, RebindSwaps(i, j, partial), req' = req
  PROVE  Core' /\ CurrentOK'
<1> DEFINE e == [entry[i] EXCEPT !.rebinding = FALSE]
           x == [FreeEntry EXCEPT !.phase = "ready", !.session = "open",
                                !.missing = partial, !.ver = entry[i].ver]
<1>1. /\ entry[i].rebinding /\ entry[j] = FreeEntry /\ current = i /\ current' = j
      /\ ~entry[i].retired /\ stopped = FALSE
      /\ entry' = [entry EXCEPT ![i] = Tidy(Retired(e)), ![j] = x]
      /\ UNCHANGED <<open, failure, stopped>>
  BY DEF RebindSwaps, CurrentOK
<1>2. i # j /\ EntryOK(entry[i]) /\ entry[i] \in EntryRecord /\ entry[i].phase # "free"
      /\ entry[j].refs = 0 /\ ~entry[j].rebinding /\ ~Busy(entry[j])
  BY <1>1, FreeEntryOK DEF Core, EntriesOK, EntryOK, CurrentOK
<1>3. /\ e \in EntryRecord /\ e.phase = entry[i].phase /\ e.ver = entry[i].ver
      /\ e.refs = entry[i].refs /\ e.failed = entry[i].failed /\ e.session = entry[i].session
      /\ (e.retired <=> entry[i].retired) /\ ~e.rebinding
  BY <1>2 DEF EntryRecord
<1>4. FreeEntry \in EntryRecord /\ entry[i].ver \in Versions
  BY <1>2, FreeEntryOK DEF EntryOK, EntryRecord
<1>5. /\ x \in EntryRecord /\ x.phase = "ready" /\ x.session = "open" /\ x.ver = entry[i].ver
      /\ x.refs = 0 /\ ~x.failed /\ ~x.retired /\ ~x.rebinding
  BY <1>4 DEF FreeEntry, EntryRecord
<1> HIDE DEF e, x
<1>6. EntryOK(e) /\ Keeps(entry[i], e) /\ (Busy(e) <=> Busy(entry[i]))
  BY <1>2, <1>3 DEF EntryOK, Keeps, Busy
<1>7. LET y == Tidy(Retired(e))
      IN  /\ EntryOK(y) /\ Keeps(entry[i], y) /\ (Busy(y) <=> Busy(entry[i]))
          /\ y.refs = entry[i].refs /\ ~y.rebinding
  <2>1. /\ EntryOK(Retired(e)) /\ Keeps(e, Retired(e)) /\ Retired(e).refs = e.refs
        /\ Retired(e).phase # "free" /\ ~Retired(e).rebinding /\ (Busy(Retired(e)) <=> Busy(e))
    BY <1>2, <1>3, <1>6, RetiredFacts
  <2>2. LET y == Tidy(Retired(e))
        IN  /\ EntryOK(y) /\ Keeps(Retired(e), y) /\ y.refs = e.refs
            /\ ~y.rebinding /\ (Busy(y) <=> Busy(e))
    BY <2>1, TidyFacts
  <2> QED
    BY <1>3, <1>6, <2>1, <2>2 DEF Keeps
<1>8. EntryOK(x) /\ Busy(x) /\ Keeps(entry[j], x)
  BY <1>2, <1>5 DEF EntryOK, Busy, Keeps
<1>9. /\ entry'[i] = Tidy(Retired(e)) /\ entry'[j] = x
      /\ \A k \in Ids \ {i, j} : entry'[k] = entry[k]
  BY <1>1, <1>2 DEF Core, EntriesOK
<1>10. ASSUME NEW k \in Ids
       PROVE  EntryOK(entry'[k]) /\ Keeps(entry[k], entry'[k]) /\ entry'[k].refs = entry[k].refs
  <2>1. k \in Ids \ {i, j} => EntryOK(entry[k]) /\ Keeps(entry[k], entry[k])
    BY DEF Core, EntriesOK, Keeps
  <2> QED
    BY <1>2, <1>5, <1>7, <1>8, <1>9, <2>1
<1>11. entry' \in [Ids -> EntryRecord]
  <2>1. \A k \in Ids : entry'[k] \in EntryRecord
    BY <1>10 DEF EntryOK
  <2> QED
    BY <1>1, <2>1 DEF Core, EntriesOK
<1>12. SameHolders
  BY DEF Core, SameHolders, HoldOK, Holding
<1>13. EntriesOK' /\ RefsOK' /\ HoldOK'
  BY <1>10, <1>11, <1>12, SameHoldersFacts, EntriesStep DEF Core, RefsOK, SameHolders
<1>14. /\ BusyIds' = BusyIds \cup {j} /\ j \notin BusyIds
       /\ RebindIds' = RebindIds \ {i} /\ i \in RebindIds
  BY <1>1, <1>2, <1>5, <1>7, <1>8, <1>9 DEF BusyIds, RebindIds
<1>15. OpenOK'
  <2>1. /\ IsFiniteSet(BusyIds) /\ Cardinality(BusyIds) \in Nat
        /\ IsFiniteSet(RebindIds) /\ Cardinality(RebindIds) \in Nat
    BY FiniteSubsets DEF BusyIds, RebindIds
  <2>2. Cardinality(BusyIds \cup {j}) = Cardinality(BusyIds) + 1
    BY <1>14, <2>1, FS_AddElement
  <2>3. Cardinality(RebindIds \ {i}) = Cardinality(RebindIds) - 1
    BY <1>14, <2>1, FS_RemoveElement
  <2> QED
    BY <1>1, <1>14, <2>1, <2>2, <2>3 DEF Core, OpenOK
<1>16. CurrentOK'
  BY <1>1, <1>5, <1>9 DEF CurrentOK
<1> QED
  BY <1>13, <1>15, <1>16 DEF Core

\* A waiting request starts to use a binding that was built.
LEMMA UsesStep ==
  ASSUME Core, NEW r \in Requests, req[r].at = "waiting",
         entry[req[r].entry].phase = "ready", ~entry[req[r].entry].failed,
         req' = [req EXCEPT ![r].at = "using"], entry' = entry, open' = open
  PROVE  Core'
<1>1. /\ req' \in [Requests -> RequestType]
      /\ req'[r].at = "using" /\ req'[r].entry = req[r].entry /\ req'[r].ver = req[r].ver
      /\ \A q \in Requests \ {r} : req'[q] = req[q]
  BY DEF Core, HoldOK, RequestType
<1>2. \A q \in Requests : Holding(q)' <=> Holding(q)
  BY <1>1 DEF Holding
<1>3. \A i : Holders(i)' = Holders(i)
  <2>1. \A q \in Requests : req'[q].entry = req[q].entry
    BY <1>1
  <2> QED
    BY <1>2, <2>1 DEF Holders
<1>4. Sound(r)'
  BY <1>1 DEF Core, HoldOK, Holding, Sound
<1>5. \A q \in Requests : Holding(q)' => SameHold(q) \/ Sound(q)'
  BY <1>1, <1>2, <1>4 DEF SameHold
<1>6. \A i \in Ids : Keeps(entry[i], entry'[i])
  BY DEF Keeps
<1>7. EntriesOK' /\ RefsOK' /\ HoldOK'
  BY <1>1, <1>3, <1>5, <1>6, EntriesStep DEF Core, EntriesOK, RefsOK
<1>8. OpenOK'
  BY DEF Core, OpenOK, BusyIds, RebindIds
<1> QED
  BY <1>7, <1>8 DEF Core

\* The provider refused: the binding retires while the request still holds it.
LEMMA UnauthorizedStep ==
  ASSUME Core, CurrentOK, NEW r \in Requests, Unauthorized(r)
  PROVE  Core' /\ CurrentOK'
<1> DEFINE i == req[r].entry
<1>1. /\ req[r].at = "using" /\ entry' = [entry EXCEPT ![i] = Retired(@)] /\ open' = open
      /\ current' = (IF current = i THEN None ELSE current)
      /\ req' = [req EXCEPT ![r].at = "failing"] /\ UNCHANGED <<failure, stopped>>
  BY DEF Unauthorized
<1>2. i \in Ids /\ Holding(r)
  BY <1>1 DEF Core, HoldOK, Sound, Holding
<1>3. /\ req' \in [Requests -> RequestType]
      /\ req'[r].at = "failing" /\ req'[r].entry = i /\ req'[r].ver = req[r].ver
      /\ \A q \in Requests \ {r} : req'[q] = req[q]
  BY <1>1 DEF Core, HoldOK, RequestType
<1>4. \A q \in Requests : (Holding(q)' <=> Holding(q)) /\ req'[q].entry = req[q].entry
  BY <1>1, <1>2, <1>3 DEF Holding
<1>5. (\A k : Holders(k)' = Holders(k)) /\ \A q \in Requests : Holding(q)' => SameHold(q)
  BY <1>1, <1>2, <1>3, <1>4 DEF Holders, SameHold
<1>6. EntryOK(entry[i]) /\ entry[i].phase # "free"
  <2>1. entry[i].refs > 0
    BY <1>2, HeldIsCounted DEF Core, Holders
  <2>2. EntryOK(entry[i])
    BY <1>2 DEF Core, EntriesOK
  <2> QED
    BY <2>1, <2>2, FreeEntryOK DEF EntryOK
<1>7. entry'[i] = Retired(entry[i]) /\ \A k \in Ids \ {i} : entry'[k] = entry[k]
  BY <1>1, <1>2 DEF Core, EntriesOK
<1>8. ASSUME NEW k \in Ids
      PROVE  /\ EntryOK(entry'[k]) /\ Keeps(entry[k], entry'[k])
             /\ entry'[k].refs = entry[k].refs /\ entry'[k].rebinding = entry[k].rebinding
             /\ Busy(entry'[k]) <=> Busy(entry[k])
  <2>1. CASE k = i
    BY <1>6, <1>7, <2>1, RetiredFacts
  <2>2. CASE k # i
    BY <1>7, <2>2 DEF Core, EntriesOK, Keeps
  <2> QED
    BY <2>1, <2>2
<1>9. entry' \in [Ids -> EntryRecord]
  BY <1>1, <1>8 DEF Core, EntriesOK, EntryOK
<1>10. EntriesOK' /\ RefsOK' /\ HoldOK'
  BY <1>3, <1>5, <1>8, <1>9, EntriesStep DEF Core, RefsOK
<1>11. BusyIds' = BusyIds /\ RebindIds' = RebindIds
  BY <1>8 DEF BusyIds, RebindIds
<1>12. CurrentOK'
  BY <1>1, <1>7 DEF CurrentOK
<1> QED
  BY <1>1, <1>10, <1>11, <1>12 DEF Core, OpenOK

-----------------------------------------------------------------------------
(* Steps of one entry.                                                     *)

\* The build ends well, and is closed at once if it was retired and given up.
LEMMA BoundFacts ==
  ASSUME NEW e, EntryOK(e), e.phase = "building", NEW partial \in BOOLEAN
  PROVE  LET x == AsBound(e, partial)
         IN  /\ EntryOK(x) /\ Keeps(e, x) /\ x.refs = e.refs /\ Busy(x)
             /\ ~x.rebinding /\ x.phase # "free" /\ ~x.failed /\ x.retired = e.retired
<1> DEFINE clears == failure # None /\ ~e.retired /\ e.onRecord
           phase == IF clears THEN "recording" ELSE "ready"
           write == IF clears THEN "clear" ELSE "none"
           y == [e EXCEPT !.session = "open", !.missing = partial, !.onRecord = FALSE,
                          !.phase = phase, !.write = write]
<1>1. e \in EntryRecord /\ ~e.failed /\ ~e.rebinding
  BY DEF EntryOK
<1>2. phase \in {"recording", "ready"} /\ write \in {"clear", "none"}
  OBVIOUS
<1>3. AsBound(e, partial) = Settle(y)
  BY DEF AsBound, Settle
<1> HIDE DEF phase, write
<1>4. /\ y \in EntryRecord /\ y.phase = phase /\ y.session = "open" /\ y.ver = e.ver
      /\ y.failed = e.failed /\ y.refs = e.refs /\ y.rebinding = e.rebinding
      /\ y.retired = e.retired
  BY <1>1, <1>2 DEF EntryRecord
<1> HIDE DEF y
<1>5. EntryOK(y) /\ Keeps(e, y) /\ Busy(y) /\ y.phase # "free" /\ y.phase # "building"
  BY <1>1, <1>2, <1>4 DEF EntryOK, Keeps, Busy
<1>6. y.refs <= y.refs
  BY <1>4 DEF EntryRecord
<1>7. /\ EntryOK(Settle(y)) /\ Keeps(y, Settle(y)) /\ Settle(y).refs = y.refs
      /\ Settle(y).rebinding = y.rebinding /\ Settle(y).retired = y.retired
      /\ Settle(y).phase = y.phase /\ Settle(y).failed = y.failed /\ Settle(y).ver = y.ver
      /\ Busy(Settle(y)) <=> Busy(y)
  BY <1>4, <1>5, <1>6, SettleFacts
<1> QED
  BY <1>1, <1>3, <1>4, <1>5, <1>7 DEF Keeps

LEMMA SettledFacts ==
  ASSUME NEW e, EntryOK(e), e.phase \in {"recording", "writing"}
  PROVE  /\ EntryOK(Settled(e)) /\ Keeps(e, Settled(e)) /\ Settled(e).phase = "ready"
         /\ Settled(e).refs = e.refs /\ Settled(e).rebinding = e.rebinding
         /\ Settled(e).failed = e.failed /\ Settled(e).retired = e.retired
         /\ Busy(Settled(e)) <=> Busy(e)
<1> DEFINE x == Settled(e)
<1>1. e \in EntryRecord
  BY DEF EntryOK
<1>2. /\ x \in EntryRecord /\ x.phase = "ready" /\ x.ver = e.ver /\ x.session = e.session
      /\ x.failed = e.failed /\ x.refs = e.refs /\ x.rebinding = e.rebinding
      /\ x.retired = e.retired
  BY <1>1 DEF EntryRecord, Settled
<1> HIDE DEF x
<1>3. EntryOK(x) /\ Keeps(e, x) /\ (Busy(x) <=> Busy(e))
  BY <1>1, <1>2 DEF EntryOK, Keeps, Busy
<1> QED
  BY <1>2, <1>3 DEF x

\* An entry ends its bookkeeping, and is collected if nothing refers to it.
LEMMA SettledTidy ==
  ASSUME NEW e, EntryOK(e), e.phase \in {"recording", "writing"}
  PROVE  LET x == Tidy(Settled(e))
         IN  /\ EntryOK(x) /\ Keeps(e, x) /\ x.refs = e.refs /\ x.rebinding = e.rebinding
             /\ Busy(x) <=> Busy(e)
             /\ ~e.failed /\ ~e.retired => ~x.failed /\ ~x.retired /\ x.phase = "ready"
<1>1. /\ EntryOK(Settled(e)) /\ Keeps(e, Settled(e)) /\ Settled(e).phase = "ready"
      /\ Settled(e).refs = e.refs /\ Settled(e).rebinding = e.rebinding
      /\ Settled(e).failed = e.failed /\ Settled(e).retired = e.retired
      /\ Busy(Settled(e)) <=> Busy(e)
  BY SettledFacts
<1>2. LET x == Tidy(Settled(e))
      IN  /\ EntryOK(x) /\ Keeps(Settled(e), x) /\ x.refs = e.refs
          /\ x.rebinding = e.rebinding /\ (Busy(x) <=> Busy(e))
          /\ ~e.failed /\ ~e.retired => x = Settled(e)
  BY <1>1, TidyFacts
<1> QED
  BY <1>1, <1>2 DEF Keeps

\* The map keeps its entry when one entry changes, unless it is that entry and
\* no request may share it any more.
LEMMA CurrentKept ==
  ASSUME CurrentOK, EntriesOK, NEW i \in Ids, NEW x, entry' = [entry EXCEPT ![i] = x],
         current' = current, stopped' = stopped, failure' \in Versions \cup {None},
         i = current => x.phase # "free" /\ ~x.failed /\ ~x.retired
  PROVE  CurrentOK'
BY DEF CurrentOK, EntriesOK

LEMMA OpenType == Core => open \in Nat
BY FiniteSubsets DEF Core, OpenOK, BusyIds, RebindIds

\* A step on one entry that keeps its place in the WaitGroup's count.
LEMMA SameCount ==
  ASSUME Core, NEW x, NEW i \in Ids, EntryOK(x), Busy(x) <=> Busy(entry[i]),
         x.rebinding <=> entry[i].rebinding
  PROVE  open = open + (IF Busy(x) THEN 1 ELSE 0) + (IF x.rebinding THEN 1 ELSE 0)
                     - (IF Busy(entry[i]) THEN 1 ELSE 0)
                     - (IF entry[i].rebinding THEN 1 ELSE 0)
<1>1. open \in Int
  BY OpenType
<1> QED
  BY <1>1

LEMMA BindSucceedsStep ==
  ASSUME Core, CurrentOK, NEW i \in Ids, NEW partial \in BOOLEAN,
         BindSucceeds(i, partial), req' = req
  PROVE  Core' /\ CurrentOK'
<1> DEFINE x == AsBound(entry[i], partial)
<1>1. /\ entry' = [entry EXCEPT ![i] = x] /\ open' = open /\ current' = current
      /\ stopped' = stopped /\ failure' \in Versions \cup {None}
  BY DEF BindSucceeds, CurrentOK
<1>2. EntryOK(entry[i]) /\ entry[i].phase = "building" /\ Busy(entry[i]) /\ ~entry[i].rebinding
  BY DEF BindSucceeds, Core, EntriesOK, EntryOK, Busy
<1>3. /\ EntryOK(x) /\ Keeps(entry[i], x) /\ x.refs = entry[i].refs /\ Busy(x)
      /\ ~x.rebinding /\ x.phase # "free" /\ ~x.failed /\ x.retired = entry[i].retired
  BY <1>2, BoundFacts
<1> HIDE DEF x
<1>4. Core'
  BY <1>1, <1>2, <1>3, SameCount, OneEntryStep
<1>5. CurrentOK'
  BY <1>1, <1>3, CurrentKept DEF Core, CurrentOK
<1> QED
  BY <1>4, <1>5

LEMMA BindFailsStep ==
  ASSUME Core, CurrentOK, NEW i \in Ids, NEW again \in BOOLEAN, BindFails(i, again), req' = req
  PROVE  Core' /\ CurrentOK'
<1> DEFINE e == entry[i]
           writes == ~e.retired /\ ~e.onRecord /\ (failure = e.ver => again)
           phase == IF writes THEN "recording" ELSE "ready"
           write == IF writes THEN "error" ELSE "none"
           x == [e EXCEPT !.failed = TRUE, !.onRecord = FALSE, !.session = "closing",
                          !.phase = phase, !.write = write]
<1>1. /\ e.phase = "building" /\ entry' = [entry EXCEPT ![i] = x] /\ open' = open
      /\ current' = (IF current = i THEN None ELSE current)
      /\ failure' = FailureOf(e) /\ stopped' = stopped
  BY DEF BindFails
<1>2. EntryOK(e) /\ e \in EntryRecord /\ Busy(e) /\ ~e.rebinding
  BY <1>1 DEF Core, EntriesOK, EntryOK, Busy
<1>3. phase \in {"recording", "ready"} /\ write \in {"error", "none"}
  OBVIOUS
<1>4. failure' \in Versions \cup {None}
  BY <1>1, <1>2 DEF FailureOf, CurrentOK, EntryRecord
<1> HIDE DEF phase, write
<1>5. /\ x \in EntryRecord /\ x.phase = phase /\ x.session = "closing" /\ x.ver = e.ver
      /\ x.failed /\ x.refs = e.refs /\ x.rebinding = e.rebinding
  BY <1>2, <1>3 DEF EntryRecord
<1> HIDE DEF x
<1>6. EntryOK(x) /\ Keeps(e, x) /\ Busy(x) /\ ~x.rebinding
  BY <1>1, <1>2, <1>3, <1>5 DEF EntryOK, Keeps, Busy
<1>7. Core'
  BY <1>1, <1>2, <1>5, <1>6, SameCount, OneEntryStep
<1>8. CurrentOK'
  <2>1. \A k \in Ids \ {i} : entry'[k] = entry[k]
    BY <1>1 DEF Core, EntriesOK
  <2> QED
    BY <1>1, <1>4, <2>1 DEF CurrentOK
<1> QED
  BY <1>7, <1>8

LEMMA SessionClosesStep ==
  ASSUME Core, CurrentOK, NEW i \in Ids, SessionCloses(i), req' = req
  PROVE  Core' /\ CurrentOK'
<1> DEFINE e == entry[i]
           x == [e EXCEPT !.session = "closed"]
<1>1. /\ e.session = "closing" /\ entry' = [entry EXCEPT ![i] = Tidy(x)] /\ open' = open - 1
      /\ UNCHANGED <<current, stopped, failure>>
  BY DEF SessionCloses
<1>2. /\ EntryOK(e) /\ e \in EntryRecord /\ Busy(e) /\ e.phase \notin {"free", "building"}
  BY <1>1 DEF Core, EntriesOK, EntryOK, Busy, FreeEntry
<1>3. /\ x \in EntryRecord /\ x.phase = e.phase /\ x.session = "closed" /\ x.ver = e.ver
      /\ x.failed = e.failed /\ x.refs = e.refs /\ x.rebinding = e.rebinding
      /\ x.retired = e.retired
  BY <1>2 DEF EntryRecord
<1> HIDE DEF x
<1>4. EntryOK(x) /\ Keeps(e, x) /\ ~Busy(x)
  BY <1>1, <1>2, <1>3 DEF EntryOK, Keeps, Busy
<1>5. LET y == Tidy(x)
      IN  EntryOK(y) /\ Keeps(x, y) /\ y.refs = x.refs /\ y.rebinding = x.rebinding /\ ~Busy(y)
  BY <1>2, <1>3, <1>4, TidyFacts
<1>6. Keeps(e, Tidy(x))
  BY <1>3, <1>4, <1>5 DEF Keeps
<1>7. Core'
  <2>1. open \in Int
    BY OpenType
  <2>2. open - 1 = open + 0 + (IF Tidy(x).rebinding THEN 1 ELSE 0)
                        - 1 - (IF e.rebinding THEN 1 ELSE 0)
    BY <1>3, <1>5, <2>1
  <2> QED
    BY <1>1, <1>2, <1>3, <1>5, <1>6, <2>2, OneEntryStep
<1>8. CurrentOK'
  <2>1. i # current
    BY <1>1, <1>2 DEF CurrentOK, EntryOK
  <2> QED
    BY <1>1, <2>1, CurrentKept DEF Core, CurrentOK
<1> QED
  BY <1>7, <1>8

LEMMA GivesUpStep ==
  ASSUME Core, CurrentOK, NEW i \in Ids, RebindGivesUp(i), req' = req
  PROVE  Core' /\ CurrentOK'
<1> DEFINE e == entry[i]
           x == [e EXCEPT !.rebinding = FALSE]
<1>1. /\ e.rebinding /\ entry' = [entry EXCEPT ![i] = Tidy(x)] /\ open' = open - 1
      /\ UNCHANGED <<current, stopped, failure>>
  BY DEF RebindGivesUp
<1>2. EntryOK(e) /\ e \in EntryRecord /\ e.phase # "free"
  BY <1>1, FreeEntryOK DEF Core, EntriesOK, EntryOK
<1>3. /\ x \in EntryRecord /\ x.phase = e.phase /\ x.session = e.session /\ x.ver = e.ver
      /\ x.failed = e.failed /\ x.refs = e.refs /\ x.retired = e.retired /\ ~x.rebinding
  BY <1>2 DEF EntryRecord
<1> HIDE DEF x
<1>4. EntryOK(x) /\ Keeps(e, x) /\ (Busy(x) <=> Busy(e))
  BY <1>2, <1>3 DEF EntryOK, Keeps, Busy
<1>5. LET y == Tidy(x)
      IN  /\ EntryOK(y) /\ Keeps(x, y) /\ y.refs = x.refs /\ ~y.rebinding
          /\ Busy(y) <=> Busy(x)
          /\ ~x.failed /\ ~x.retired => y = x
  BY <1>2, <1>3, <1>4, TidyFacts
<1>6. Keeps(e, Tidy(x))
  BY <1>3, <1>4, <1>5 DEF Keeps
<1>7. Core'
  <2>1. open \in Int
    BY OpenType
  <2>2. open - 1 = open + (IF Busy(Tidy(x)) THEN 1 ELSE 0) + 0
                        - (IF Busy(e) THEN 1 ELSE 0) - 1
    BY <1>4, <1>5, <2>1
  <2> QED
    BY <1>1, <1>3, <1>5, <1>6, <2>2, OneEntryStep
<1>8. CurrentOK'
  <2>1. i = current => Tidy(x) = x /\ x.phase # "free" /\ ~x.failed /\ ~x.retired
    BY <1>2, <1>3, <1>5, NoneAssumption DEF CurrentOK
  <2> QED
    BY <1>1, <2>1, CurrentKept DEF Core, CurrentOK
<1> QED
  BY <1>7, <1>8

\* The bookkeeping of a bind, whether it goes on to the write or ends.
LEMMA RecordStep ==
  ASSUME Core, CurrentOK, NEW i \in Ids, req' = req, open' = open,
         UNCHANGED <<current, failure, stopped>>,
         entry[i].phase \in {"recording", "writing"},
         \/ entry' = [entry EXCEPT ![i] = Tidy(Settled(@))]
         \/ entry[i].phase = "recording"
            /\ entry' = [entry EXCEPT ![i] = [@ EXCEPT !.phase = "writing"]]
  PROVE  Core' /\ CurrentOK'
<1> DEFINE e == entry[i]
<1>1. EntryOK(e) /\ e \in EntryRecord
  BY DEF Core, EntriesOK
<1>2. PICK x : /\ entry' = [entry EXCEPT ![i] = x]
               /\ EntryOK(x) /\ Keeps(e, x) /\ x.refs = e.refs /\ x.rebinding = e.rebinding
               /\ Busy(x) <=> Busy(e)
               /\ ~e.failed /\ ~e.retired => ~x.failed /\ ~x.retired /\ x.phase # "free"
  <2>1. CASE entry' = [entry EXCEPT ![i] = Tidy(Settled(@))]
    BY <1>1, <2>1, SettledTidy
  <2>2. CASE /\ e.phase = "recording"
             /\ entry' = [entry EXCEPT ![i] = [@ EXCEPT !.phase = "writing"]]
    <3> DEFINE x == [e EXCEPT !.phase = "writing"]
    <3>1. /\ x \in EntryRecord /\ x.phase = "writing" /\ x.session = e.session
          /\ x.ver = e.ver /\ x.failed = e.failed /\ x.refs = e.refs
          /\ x.retired = e.retired /\ x.rebinding = e.rebinding
      BY <1>1 DEF EntryRecord
    <3>2. entry' = [entry EXCEPT ![i] = x]
      BY <2>2
    <3> HIDE DEF x
    <3>3. EntryOK(x) /\ Keeps(e, x) /\ (Busy(x) <=> Busy(e))
      BY <1>1, <2>2, <3>1 DEF EntryOK, Keeps, Busy
    <3> QED
      BY <3>1, <3>2, <3>3
  <2> QED
    BY <2>1, <2>2
<1>3. Core'
  BY <1>2, SameCount, OneEntryStep
<1>4. CurrentOK'
  <2>1. failure' \in Versions \cup {None}
    BY DEF CurrentOK
  <2> QED
    BY <1>2, <2>1, CurrentKept DEF Core, CurrentOK
<1> QED
  BY <1>3, <1>4

-----------------------------------------------------------------------------
(* Every step keeps the invariant.                                         *)

\* The binding in the map retires, and the map is empty.
LEMMA DropsCurrent ==
  ASSUME Core, CurrentOK, SameHolders, entry' = RetireCurrent, open' = open,
         current' = None, failure' \in Versions \cup {None}, stopped' \in BOOLEAN
  PROVE  Core' /\ CurrentOK'
<1>1. Core'
  BY RetireCurrentStep
<1>2. CurrentOK'
  BY DEF CurrentOK
<1> QED
  BY <1>1, <1>2

LEMMA EntrySteps ==
  ASSUME Inv, NEW i \in Ids, EntryStep(i)
  PROVE  Inv'
<1> USE DEF Inv
<1>1. req' = req /\ test' = test
  BY DEF EntryStep, SessionCloses, BindSucceeds, BindFails, RecordReads, RecordWrites,
         RebindGivesUp, RebindSwaps
<1>2. TestOK'
  BY <1>1 DEF TestOK
<1>3. CASE SessionCloses(i)
  <2>1. SettingsOK'
    BY <1>3 DEF SettingsOK, SessionCloses, settings
  <2> QED
    BY <1>1, <1>2, <1>3, <2>1, SessionClosesStep
<1>4. ASSUME NEW partial \in BOOLEAN, BindSucceeds(i, partial) PROVE Inv'
  <2>1. SettingsOK'
    BY <1>4 DEF SettingsOK, BindSucceeds, settings
  <2> QED
    BY <1>1, <1>2, <1>4, <2>1, BindSucceedsStep
<1>5. ASSUME NEW again \in BOOLEAN, BindFails(i, again) PROVE Inv'
  <2>1. SettingsOK'
    BY <1>5 DEF SettingsOK, BindFails, settings
  <2> QED
    BY <1>1, <1>2, <1>5, <2>1, BindFailsStep
<1>6. CASE RecordReads(i)
  <2>1. SettingsOK'
    BY <1>6 DEF SettingsOK, RecordReads, settings
  <2>2. Core' /\ CurrentOK'
    BY <1>1, <1>6, RecordStep DEF RecordReads
  <2> QED
    BY <1>2, <2>1, <2>2
<1>7. CASE RecordWrites(i)
  <2>1. entry[i] \in EntryRecord
    BY DEF Core, EntriesOK
  <2>2. entry[i].ver \in Versions /\ (IF entry[i].write = "clear" THEN "none" ELSE "bind") \in Errors
    BY <2>1 DEF EntryRecord, Errors
  <2>3. SettingsOK'
    BY <1>7, <2>2, VerifyFacts DEF SettingsOK, RecordWrites
  <2>4. Core' /\ CurrentOK'
    BY <1>1, <1>7, RecordStep DEF RecordWrites
  <2> QED
    BY <1>2, <2>3, <2>4
<1>8. CASE RebindGivesUp(i)
  <2>1. SettingsOK'
    BY <1>8 DEF SettingsOK, RebindGivesUp, settings
  <2> QED
    BY <1>1, <1>2, <1>8, <2>1, GivesUpStep
<1>9. ASSUME NEW j \in Ids, NEW partial \in BOOLEAN,
              RebindSwaps(i, j, partial) PROVE Inv'
  <2>1. SettingsOK'
    BY <1>9 DEF SettingsOK, RebindSwaps, settings
  <2> QED
    BY <1>1, <1>2, <1>9, <2>1, SwapStep
<1> QED
  BY <1>3, <1>4, <1>5, <1>6, <1>7, <1>8, <1>9 DEF EntryStep

LEMMA RequestActions ==
  ASSUME Inv, NEW r \in Requests,
         Ask(r) \/ Acquire(r) \/ Proceed(r) \/ Release(r) \/ Unauthorized(r)
  PROVE  Inv'
<1> USE DEF Inv
<1>1. SettingsOK' /\ TestOK'
  BY DEF Ask, Acquire, AcquireStopped, AcquireShares, AcquireSkips, AcquireBuilds, Proceed,
         Release, Unauthorized, SettingsOK, settings, TestOK
<1>2. req[r] \in RequestType /\ Idle \in RequestType /\ Idle.at = "idle"
  BY DEF Core, HoldOK, Idle, RequestType, Versions
<1>3. SUFFICES Core' /\ CurrentOK'
  BY <1>1
<1>4. ASSUME SameHolders, UNCHANGED gateway PROVE Core' /\ CurrentOK'
  <2>1. Core'
    BY <1>4, QuietStep DEF gateway
  <2>2. CurrentOK'
    BY <1>4 DEF gateway, CurrentOK
  <2> QED
    BY <2>1, <2>2
<1>5. CASE Ask(r)
  <2> DEFINE x == [Idle EXCEPT !.at = "asked", !.ver = cache.ver,
                               !.onRecord = cache.error = "bind"]
  <2>1. x \in RequestType /\ x.at = "asked"
    BY <1>2 DEF SettingsOK, Configs, RequestType
  <2>2. ~Holding(r) /\ req' = [req EXCEPT ![r] = x]
    BY <1>5 DEF Ask, Holding
  <2> HIDE DEF x
  <2>3. SameHolders
    BY <2>1, <2>2, RequestSteps DEF Core
  <2> QED
    BY <1>4, <1>5, <2>3 DEF Ask
<1>6. CASE AcquireStopped(r)
  <2>1. SameHolders
    BY <1>2, <1>6, RequestSteps DEF Core, AcquireStopped, Holding
  <2> QED
    BY <1>4, <1>6, <2>1 DEF AcquireStopped
<1>7. CASE AcquireSkips(r)
  <2>1. SameHolders
    BY <1>2, <1>7, RequestSteps DEF Core, AcquireSkips, Holding
  <2> QED
    BY <1>7, <2>1, DropsCurrent DEF AcquireSkips, CurrentOK
<1>8. ASSUME NEW rebind \in BOOLEAN, AcquireShares(r, rebind) PROVE Core' /\ CurrentOK'
  BY <1>8, SharesStep
<1>9. ASSUME NEW i \in Ids, AcquireBuilds(r, i) PROVE Core' /\ CurrentOK'
  BY <1>9, BuildsStep
<1>10. ASSUME Holding(r), req' = [req EXCEPT ![r] = Idle], open' = open,
              entry' = [entry EXCEPT ![req[r].entry] = Released(@)],
              UNCHANGED <<current, failure, stopped>>
       PROVE  Core' /\ CurrentOK'
  <2> DEFINE i == req[r].entry
  <2>1. Core'
    BY <1>10, ReleaseStep
  <2>2. i \in Ids /\ entry[i].refs > 0 /\ EntryOK(entry[i])
    BY <1>10, HeldIsCounted DEF Core, HoldOK, Sound, Holders, EntriesOK
  <2>3. i = current =>
          /\ Released(entry[i]).phase # "free"
          /\ ~Released(entry[i]).failed /\ ~Released(entry[i]).retired
    BY <2>2, ReleasedFacts DEF CurrentOK
  <2>4. CurrentOK'
    BY <1>10, <2>2, <2>3, CurrentKept DEF Core, CurrentOK
  <2> QED
    BY <2>1, <2>4
<1>11. CASE Proceed(r)
  <2>1. CASE entry[req[r].entry].failed
    BY <1>10, <1>11, <2>1 DEF Proceed, Holding
  <2>2. CASE ~entry[req[r].entry].failed
    <3>1. Core'
      BY <1>11, <2>2, UsesStep DEF Proceed
    <3>2. CurrentOK'
      BY <1>11, <2>2 DEF Proceed, CurrentOK
    <3> QED
      BY <3>1, <3>2
  <2> QED
    BY <2>1, <2>2
<1>12. CASE Release(r)
  BY <1>10, <1>12 DEF Release, Holding
<1>13. CASE Unauthorized(r)
  BY <1>13, UnauthorizedStep
<1> QED
  BY <1>5, <1>6, <1>7, <1>8, <1>9, <1>11, <1>12, <1>13 DEF Acquire

LEMMA StepInv == Inv /\ [Next]_vars => Inv'
<1> SUFFICES ASSUME Inv, [Next]_vars PROVE Inv'
  OBVIOUS
<1> USE DEF Inv
<1>1. ASSUME req' = req PROVE SameHolders
  BY <1>1 DEF Core, SameHolders, HoldOK, Holding
<1>2. ASSUME UNCHANGED gateway, req' = req PROVE Core' /\ CurrentOK'
  <2>1. Core'
    BY <1>1, <1>2, QuietStep DEF gateway
  <2>2. CurrentOK'
    BY <1>2 DEF gateway, CurrentOK
  <2> QED
    BY <2>1, <2>2
<1>3. CASE CacheExpires \/ OtherReplica \/ Save
  <2>1. SettingsOK'
    BY <1>3, SaveFacts DEF SettingsOK, CacheExpires
  <2>2. UNCHANGED gateway /\ req' = req /\ test' = test
    BY <1>3 DEF CacheExpires, OtherReplica, Save
  <2> QED
    BY <1>2, <2>1, <2>2 DEF TestOK
<1>4. CASE Sweep
  <2>1. SettingsOK' /\ TestOK'
    BY <1>4 DEF Sweep, SettingsOK, settings, TestOK
  <2>2. CASE entry' = RetireCurrent /\ current' = None /\ failure' = failure
    BY <1>1, <1>4, <2>1, <2>2, DropsCurrent DEF Sweep, CurrentOK
  <2>3. CASE failure' = None /\ UNCHANGED <<entry, current>>
    <3>1. Core'
      BY <1>1, <1>4, <2>3, QuietStep DEF Sweep
    <3>2. CurrentOK'
      BY <1>4, <2>3 DEF Sweep, CurrentOK
    <3> QED
      BY <2>1, <3>1, <3>2
  <2> QED
    BY <1>4, <2>2, <2>3 DEF Sweep
<1>5. CASE Invalidate
  <2>1. SettingsOK' /\ TestOK'
    BY <1>5 DEF Invalidate, SettingsOK, TestOK
  <2> QED
    BY <1>1, <1>5, <2>1, DropsCurrent DEF Invalidate, CurrentOK
<1>6. CASE Shutdown
  <2>1. SettingsOK' /\ TestOK'
    BY <1>6 DEF Shutdown, SettingsOK, settings, TestOK
  <2> QED
    BY <1>1, <1>6, <2>1, DropsCurrent DEF Shutdown, CurrentOK
<1>7. CASE TestStarts
  <2>1. SettingsOK' /\ TestOK'
    BY <1>7 DEF TestStarts, SettingsOK, settings, TestOK, Configs
  <2> QED
    BY <1>2, <1>7, <2>1 DEF TestStarts
<1>8. ASSUME NEW error \in Errors, TestEnds(error) PROVE Inv'
  <2>1. test.ver \in Versions
    BY DEF TestOK
  <2>2. SettingsOK'
    <3>1. CASE cache.ver # test.ver
      BY <1>8, <3>1 DEF TestEnds, SettingsOK
    <3>2. CASE cache.ver = test.ver
      BY <1>8, <2>1, <3>2, VerifyFacts DEF TestEnds, SettingsOK
    <3> QED
      BY <3>1, <3>2
  <2>3. TestOK'
    BY <1>8 DEF TestEnds, TestOK, NoTest, Versions
  <2> QED
    BY <1>2, <1>8, <2>2, <2>3 DEF TestEnds
<1>9. ASSUME NEW behind \in BOOLEAN, TestForgives(behind) PROVE Inv'
  <2>1. SettingsOK' /\ TestOK'
    BY <1>9 DEF TestForgives, SettingsOK, settings, TestOK, NoTest, Versions
  <2>2. CASE entry' = RetireCurrent /\ current' = None
    BY <1>1, <1>9, <2>1, <2>2, DropsCurrent DEF TestForgives, CurrentOK
  <2>3. CASE UNCHANGED <<entry, current>>
    <3>1. Core'
      BY <1>1, <1>9, <2>3, QuietStep DEF TestForgives
    <3>2. CurrentOK'
      BY <1>9, <2>3 DEF TestForgives, CurrentOK
    <3> QED
      BY <2>1, <3>1, <3>2
  <2> QED
    BY <1>9, <2>2, <2>3 DEF TestForgives
<1>10. ASSUME NEW i \in Ids, EntryStep(i) PROVE Inv'
  BY <1>10, EntrySteps
<1>11. ASSUME NEW r \in Requests,
              Ask(r) \/ Acquire(r) \/ Proceed(r) \/ Release(r) \/ Unauthorized(r)
       PROVE  Inv'
  BY <1>11, RequestActions
<1>12. CASE UNCHANGED vars
  BY <1>2, <1>12 DEF vars, settings, SettingsOK, TestOK
<1> QED
  BY <1>3, <1>4, <1>5, <1>6, <1>7, <1>8, <1>9, <1>10, <1>11, <1>12 DEF Next, TestStep

LEMMA Invariant == Spec => []Inv
<1>1. Init => Inv
  BY InitInv
<1>2. Inv /\ [Next]_vars => Inv'
  BY StepInv
<1> QED
  BY <1>1, <1>2, PTL DEF Spec

-----------------------------------------------------------------------------
(* The theorems.                                                           *)

\* The state of the gateway is well typed, and a binding has never more users
\* than there are requests: its count is exactly the number of requests that
\* hold it (gateway.go:455-498, 861-872).
THEOREM TypeCorrect == Spec => []TypeOK
<1>1. ASSUME Inv PROVE TypeOK
  <2>1. ASSUME NEW i \in Ids PROVE entry[i] \in EntryType
    <3>1. entry[i] \in EntryRecord /\ entry[i].refs = Cardinality(Holders(i))
      BY <1>1 DEF Inv, Core, EntriesOK, RefsOK
    <3>2. entry[i].refs \in 0 .. Cardinality(Requests)
      BY <3>1, FiniteSubsets DEF Holders
    <3> QED
      BY <3>1, <3>2 DEF EntryRecord, EntryType
  <2>2. entry \in [Ids -> EntryType]
    BY <1>1, <2>1 DEF Inv, Core, EntriesOK
  <2> QED
    BY <1>1, <2>2, OpenType
    DEF Inv, Core, SettingsOK, CurrentOK, HoldOK, TestOK, TypeOK
<1> QED
  BY <1>1, Invariant, PTL

\* Whoever talks to a provider does so through a session that is open and of
\* the configuration it read, whatever retires the binding meanwhile: a save, a
\* sweep, a shutdown, a refused call, a better binding (gateway.go:818-859).
THEOREM UsersHoldAnOpenSessionHolds == Spec => []UsersHoldAnOpenSession
<1>1. ASSUME Inv, NEW r \in Requests, req[r].at \in {"using", "failing"}
      PROVE  entry[req[r].entry].session = "open" /\ entry[req[r].entry].ver = req[r].ver
  <2> DEFINE i == req[r].entry
  <2>1. Holding(r) /\ req[r].at # "waiting"
    BY <1>1 DEF Holding
  <2>2. /\ i \in Ids /\ entry[i].ver = req[r].ver
        /\ entry[i].phase # "building" /\ ~entry[i].failed
    BY <1>1, <2>1 DEF Inv, Core, HoldOK, Sound
  <2>3. entry[i].refs > 0
    BY <1>1, <2>1, <2>2, HeldIsCounted DEF Inv, Core, Holders
  <2>4. EntryOK(entry[i]) /\ entry[i].phase # "free"
    BY <1>1, <2>2, <2>3, FreeEntryOK DEF Inv, Core, EntriesOK, EntryOK
  <2> QED
    BY <2>2, <2>3, <2>4 DEF EntryOK
<1>2. Inv => UsersHoldAnOpenSession
  BY <1>1 DEF UsersHoldAnOpenSession
<1> QED
  BY <1>2, Invariant, PTL

\* The WaitGroup counts exactly the sessions that are open, closing or being
\* built, so it neither goes below zero, which would panic, nor lets Shutdown
\* return before the last of them; and nothing is built after Shutdown
\* (gateway.go:309-332).
THEOREM ShutdownWaitsForSessionsHolds == Spec => []ShutdownWaitsForSessions
<1>1. ASSUME Inv PROVE ShutdownWaitsForSessions
  <2>1. /\ IsFiniteSet(BusyIds) /\ Cardinality(BusyIds) \in Nat
        /\ IsFiniteSet(RebindIds) /\ Cardinality(RebindIds) \in Nat
    BY FiniteSubsets DEF BusyIds, RebindIds
  <2>2. open = Cardinality(BusyIds) + Cardinality(RebindIds)
    BY <1>1 DEF Inv, Core, OpenOK
  <2>3. open = 0 <=> BusyIds = {} /\ RebindIds = {}
    BY <2>1, <2>2, FS_EmptySet
  <2>4. \A i \in Ids : Counts(entry[i]) = 0 <=> ~Busy(entry[i]) /\ ~entry[i].rebinding
    BY DEF Counts, Busy
  <2>5. open = 0 <=> \A i \in Ids : Counts(entry[i]) = 0
    BY <2>3, <2>4 DEF BusyIds, RebindIds
  <2>6. open >= 0
    BY <2>1, <2>2
  <2> QED
    BY <1>1, <2>5, <2>6 DEF Inv, CurrentOK, ShutdownWaitsForSessions
<1> QED
  BY <1>1, Invariant, PTL

\* An error on record was observed on the mode, fields and secrets it is stored
\* with (gateway.go:777-815, settings/mcp.go:312-328 and 371-398): a save that
\* keeps the error kept those, and the precondition of a write holds in the step
\* that writes, whatever was saved since the build or the test began.
THEOREM ErrorsBelongToTheConfigHolds == Spec => []ErrorsBelongToTheConfig
<1>1. Init => ErrorsBelongToTheConfig
  BY DEF Init, ErrorsBelongToTheConfig
<1>2. Inv /\ ErrorsBelongToTheConfig /\ [Next]_vars => ErrorsBelongToTheConfig'
  <2> SUFFICES ASSUME Inv, ErrorsBelongToTheConfig, [Next]_vars
               PROVE  ErrorsBelongToTheConfig'
    OBVIOUS
  <2> USE DEF ErrorsBelongToTheConfig
  <2>1. ASSUME stored' = stored, errorOf' = errorOf PROVE ErrorsBelongToTheConfig'
    BY <2>1
  <2>2. ASSUME NEW ver \in Versions, NEW expected, NEW error \in Errors,
               Verify(ver, expected, error), saver' = saver
        PROVE  ErrorsBelongToTheConfig'
    <3>1. stored.ver \in Nat /\ stored.conf \in Nat /\ stored.conf <= stored.ver
      BY DEF Inv, SettingsOK, Configs, Versions
    <3> QED
      BY <2>2, <3>1, VerifyFacts DEF Inv
  <2>3. CASE CacheExpires \/ Sweep \/ Invalidate \/ Shutdown
    BY <2>1, <2>3 DEF CacheExpires, Sweep, Invalidate, Shutdown, settings
  <2>4. CASE OtherReplica \/ Save
    <3> USE DEF Inv, SettingsOK, Configs
    <3>1. /\ stored.ver \in Nat /\ stored.conf \in Nat /\ stored.conf <= stored.ver
          /\ stored'.ver \in Nat /\ stored'.conf \in Nat /\ stored'.conf <= stored'.ver
      BY <2>4, SaveFacts DEF Versions
    <3>2. CASE stored'.error = "none"
      BY <3>2
    <3>3. CASE errorOf' = stored'.ver
      BY <3>1, <3>3
    <3>4. CASE /\ stored.error # "none" /\ errorOf' = errorOf
               /\ stored'.conf = stored.conf /\ stored.ver <= stored'.ver
      BY <3>1, <3>4
    <3> QED
      BY <2>4, <3>2, <3>3, <3>4, SaveFacts
  <2>5. CASE TestStep
    <3>1. ASSUME NEW error \in Errors, TestEnds(error) PROVE ErrorsBelongToTheConfig'
      <4>1. CASE cache.ver # test.ver
        BY <2>1, <3>1, <4>1 DEF TestEnds
      <4>2. CASE cache.ver = test.ver
        BY <2>2, <3>1, <4>2 DEF TestEnds, Inv, TestOK
      <4> QED
        BY <4>1, <4>2
    <3>2. CASE TestStarts \/ \E behind \in BOOLEAN : TestForgives(behind)
      BY <2>1, <3>2 DEF TestStarts, TestForgives, settings
    <3> QED
      BY <2>5, <3>1, <3>2 DEF TestStep
  <2>6. ASSUME NEW i \in Ids, EntryStep(i) PROVE ErrorsBelongToTheConfig'
    <3>1. CASE RecordWrites(i)
      <4>1. entry[i] \in EntryRecord
        BY DEF Inv, Core, EntriesOK
      <4>2. /\ entry[i].ver \in Versions
            /\ (IF entry[i].write = "clear" THEN "none" ELSE "bind") \in Errors
        BY <4>1 DEF EntryRecord, Errors
      <4> QED
        BY <2>2, <3>1, <4>2 DEF RecordWrites
    <3>2. CASE ~RecordWrites(i)
      BY <2>1, <2>6, <3>2 DEF EntryStep, SessionCloses, BindSucceeds, BindFails, RecordReads,
                              RebindGivesUp, RebindSwaps, settings
    <3> QED
      BY <3>1, <3>2
  <2>7. ASSUME NEW r \in Requests,
               Ask(r) \/ Acquire(r) \/ Proceed(r) \/ Release(r) \/ Unauthorized(r)
        PROVE  ErrorsBelongToTheConfig'
    BY <2>1, <2>7 DEF Ask, Acquire, AcquireStopped, AcquireShares, AcquireSkips, AcquireBuilds,
                      Proceed, Release, Unauthorized, settings
  <2>8. CASE UNCHANGED vars
    BY <2>1, <2>8 DEF vars, settings
  <2> QED
    BY <2>3, <2>4, <2>5, <2>6, <2>7, <2>8 DEF Next
<1> QED
  BY <1>1, <1>2, Invariant, PTL DEF Spec

\* A connector that binds again clears the error of its failed bind, never the
\* error of a test that was recorded meanwhile (gateway.go:742-749): that clear is
\* conditional on the error that is stored.  A failed bind's error is not, and
\* does take the place of a test's.
THEOREM BindKeepsTestErrorsHolds == Spec => BindKeepsTestErrors
<1>1. ASSUME Inv, NEW i \in Ids, RecordWrites(i), stored.error = "test"
      PROVE  stored'.error # "none"
  <2>1. entry[i].ver \in Versions
    BY <1>1 DEF Inv, Core, EntriesOK, EntryRecord
  <2>2. CASE entry[i].write = "clear"
    <3>1. Verify(entry[i].ver, {"bind"}, "none") /\ saver' = saver
      BY <1>1, <2>2 DEF RecordWrites, Expected
    <3>2. stored' = stored
      BY <1>1, <2>1, <3>1, VerifyFacts DEF Inv, Errors
    <3> QED
      BY <1>1, <3>2
  <2>3. CASE entry[i].write # "clear"
    <3>1. Verify(entry[i].ver, Errors, "bind") /\ saver' = saver
      BY <1>1, <2>3 DEF RecordWrites, Expected
    <3>2. stored' = stored \/ stored'.error = "bind"
      BY <1>1, <2>1, <3>1, VerifyFacts DEF Inv, Errors
    <3> QED
      BY <1>1, <3>2
  <2> QED
    BY <2>2, <2>3
<1>2. Inv => [\A i \in Ids : RecordWrites(i) /\ stored.error = "test" => stored'.error # "none"]_vars
  BY <1>1
<1> QED
  BY <1>2, Invariant, PTL DEF BindKeepsTestErrors
=============================================================================
