------------------------ MODULE PolicyHistory_proofs ------------------------
(***************************************************************************)
(* Proofs about PolicyHistory: the two histories hold changes only, and    *)
(* agree with the entities, for any firewalls, rules, edits and failures.  *)
(*                                                                         *)
(* What a rule or a book consists of is left open there: nothing is used   *)
(* of the parsers but that they return tables of some kind.  The last      *)
(* section is about the Junos parsers themselves.                          *)
(***************************************************************************)
EXTENDS PolicyHistory, JunosParser, SequenceTheorems, TLAPS

----------------------------------------------------------------------------
(* Histories.                                                              *)

(* Every key of a history has rows, and neighbouring ones differ.          *)
Changes(rows) ==
    /\ \E S : rows \in Seq(S)
    /\ Len(rows) > 0
    /\ \A i \in 1..(Len(rows) - 1) : rows[i] # rows[i + 1]

HoldsChanges(history) == \A k \in DOMAIN history : Changes(history[k])

(* A row that differs from the last one is a change.                       *)
LEMMA ChangeAppended ==
    ASSUME NEW rows, Changes(rows), NEW row, row # Last(rows)
    PROVE  Changes(Append(rows, row)) /\ Last(Append(rows, row)) = row
<1>1. PICK S : rows \in Seq(S)
  BY DEF Changes
<1>2. rows \in Seq(S \cup {row})
  BY <1>1
<1>3. /\ Append(rows, row) \in Seq(S \cup {row})
      /\ Len(Append(rows, row)) = Len(rows) + 1
      /\ Append(rows, row)[Len(rows) + 1] = row
      /\ \A i \in 1..Len(rows) : Append(rows, row)[i] = rows[i]
      /\ Len(rows) \in Nat
  BY <1>2
<1>4. ASSUME NEW i \in 1..Len(rows) PROVE Append(rows, row)[i] # Append(rows, row)[i + 1]
  <2>1. CASE i = Len(rows)
    BY <1>3, <2>1 DEF Last
  <2>2. CASE i # Len(rows)
    BY <1>3, <2>2 DEF Changes
  <2>3. QED
    BY <2>1, <2>2
<1> DEFINE more == Append(rows, row)
<1> HIDE DEF more
<1>5. /\ more \in Seq(S \cup {row}) /\ Len(more) - 1 = Len(rows) /\ Len(more) > 0
      /\ more[Len(more)] = row
      /\ \A i \in 1..Len(rows) : more[i] # more[i + 1]
  BY <1>3, <1>4 DEF more
<1>6. Changes(more) /\ Last(more) = row
  <2>1. \E T : more \in Seq(T)
    BY <1>5
  <2>2. \A i \in 1..(Len(more) - 1) : more[i] # more[i + 1]
    BY <1>5
  <2>3. QED
    BY <1>5, <2>1, <2>2 DEF Changes, Last
<1>7. QED
  BY <1>6 DEF more

LEMMA FirstRow ==
    ASSUME NEW row
    PROVE  Changes(<<row>>) /\ Last(<<row>>) = row
<1> DEFINE rows == <<row>>
<1>1. rows \in Seq({row}) /\ Len(rows) = 1 /\ rows[1] = row
  OBVIOUS
<1> HIDE DEF rows
<1>2. \E S : rows \in Seq(S)
  BY <1>1
<1>3. Changes(rows) /\ Last(rows) = row
  BY <1>1, <1>2 DEF Changes, Last
<1>4. QED
  BY <1>3 DEF rows

(* An append that compares with the latest rows adds changes only, and     *)
(* leaves the key's row the latest.                                        *)
LEMMA AppendHoldsChanges ==
    ASSUME NEW history, HoldsChanges(history), NEW rows, NEW last,
           last = LatestRows(history, DOMAIN rows)
    PROVE  LET new == Appended(history, rows, last)
           IN  /\ HoldsChanges(new)
               /\ DOMAIN new = DOMAIN history \cup DOMAIN rows
               /\ \A k \in DOMAIN rows : Last(new[k]) = rows[k]
               /\ \A k \in DOMAIN history \ DOMAIN rows : new[k] = history[k]
<1> DEFINE new == Appended(history, rows, last)
           changed == Changed(rows, last)
<1>1. /\ DOMAIN last = DOMAIN rows \cap DOMAIN history
      /\ \A k \in DOMAIN last : last[k] = Last(history[k])
  BY DEF LatestRows
<1>2. changed \subseteq DOMAIN rows
  BY DEF Changed
<1>3. \A k \in DOMAIN rows \ changed : k \in DOMAIN history /\ Last(history[k]) = rows[k]
  BY <1>1 DEF Changed
<1>4. \A k \in changed \cap DOMAIN history : rows[k] # Last(history[k])
  BY <1>1 DEF Changed
<1>5. new = [k \in DOMAIN history \cup changed |->
                IF k \notin changed THEN history[k]
                ELSE IF k \in DOMAIN history THEN Append(history[k], rows[k]) ELSE <<rows[k]>>]
  BY DEF Appended
<1> HIDE DEF new, changed
<1>6. DOMAIN new = DOMAIN history \cup DOMAIN rows
  BY <1>2, <1>3, <1>5
<1>7. ASSUME NEW k \in DOMAIN new
      PROVE  /\ Changes(new[k])
             /\ k \in DOMAIN rows => Last(new[k]) = rows[k]
             /\ k \notin DOMAIN rows => new[k] = history[k]
  <2>1. CASE k \notin changed
    <3>1. k \in DOMAIN history /\ new[k] = history[k]
      BY <1>3, <1>5, <1>6, <2>1
    <3>2. QED
      BY <1>3, <2>1, <3>1 DEF HoldsChanges
  <2>2. CASE k \in changed /\ k \in DOMAIN history
    <3>1. new[k] = Append(history[k], rows[k]) /\ Changes(history[k])
      BY <1>5, <2>2 DEF HoldsChanges
    <3>2. QED
      BY <1>2, <1>4, <2>2, <3>1, ChangeAppended
  <2>3. CASE k \in changed /\ k \notin DOMAIN history
    <3>1. new[k] = <<rows[k]>>
      BY <1>5, <2>3
    <3>2. QED
      BY <1>2, <2>3, <3>1, FirstRow
  <2>4. QED
    BY <2>1, <2>2, <2>3
<1>8. QED
  BY <1>6, <1>7 DEF HoldsChanges, new

----------------------------------------------------------------------------
(* The pass.                                                               *)

Fields == {"stage", "collectors", "todo", "rules", "texts", "items", "rows", "last"}

IsPass(p) == p = [f \in Fields |-> p[f]]

Collecting == {"rules", "objects"}

(* What a pass is about to append is compared with the latest rows, and    *)
(* the entities of its rules are written before their versions.            *)
PassInv ==
    /\ IsPass(pass)
    /\ pass.stage = "append_versions" => pass.last = LatestRows(versions, DOMAIN pass.rows)
    /\ pass.stage = "append_books" => pass.last = LatestRows(books, DOMAIN PassBooks)
    /\ pass.stage \in {"edges", "read_versions", "append_versions"} =>
          \A k \in DOMAIN pass.rows : k \in DOMAIN entities /\ entities[k] = pass.rows[k]

HistInv ==
    /\ HoldsChanges(versions) /\ HoldsChanges(books)
    /\ HistoryAgreesWithEntities

PolicyInv == PassInv /\ HistInv

LEMMA NoPassIsPass == IsPass(NoPass) /\ NoPass.stage = "idle"
BY DEF NoPass, IsPass, Fields

LEMMA BeginIsPass ==
    ASSUME NEW p, IsPass(p), NEW collectors
    PROVE  IsPass(Begin(p, collectors)) /\ Begin(p, collectors).stage \in {"rules", "resolve"}
BY DEF IsPass, Fields, Begin

LEMMA NextDeviceIsPass ==
    ASSUME NEW p, IsPass(p), p.stage \in Collecting
    PROVE  IsPass(NextDevice(p)) /\ NextDevice(p).stage \in Collecting \cup {"resolve"}
<1>1. CASE Len(p.todo) > 1
  BY <1>1 DEF IsPass, Fields, NextDevice
<1>2. CASE ~(Len(p.todo) > 1) /\ p.stage = "rules"
  BY <1>2 DEF IsPass, Fields, NextDevice, Collecting
<1>3. CASE ~(Len(p.todo) > 1) /\ p.stage # "rules"
  <2> DEFINE q == [p EXCEPT !.texts = <<>>]
  <2>1. NextDevice(p) = Begin(q, Tail(p.collectors))
    BY <1>3 DEF NextDevice
  <2>2. IsPass(q)
    BY DEF IsPass, Fields
  <2> HIDE DEF q
  <2>3. QED
    BY <2>1, <2>2, BeginIsPass DEF Collecting
<1>4. QED
  BY <1>1, <1>2, <1>3

LEMMA PolicyInvInit == Init => PolicyInv
BY NoPassIsPass DEF Init, PolicyInv, PassInv, HistInv, HoldsChanges, HistoryAgreesWithEntities

(* A step that collects, or ends the pass, touches no table.               *)
LEMMA PolicyInvElsewhere ==
    ASSUME PolicyInv, UNCHANGED <<entities, versions, books, behind>>, IsPass(pass'),
           pass'.stage \in {"idle", "rules", "objects", "resolve", "entities"}
    PROVE  PolicyInv'
BY DEF PolicyInv, PassInv, HistInv, HoldsChanges, Changes, HistoryAgreesWithEntities

LEMMA PolicyInvCollect ==
    ASSUME PolicyInv,
           \/ Start \/ ReadPolicies \/ ReadRulebase \/ SkipDevice \/ SkipCollector
           \/ ReadSection \/ SkipBook
    PROVE  PolicyInv'
<1>1. UNCHANGED <<entities, versions, books, behind>>
  BY DEF Start, ReadPolicies, ReadRulebase, SkipDevice, SkipCollector, ReadSection, SkipBook,
         tables, graph
<1>2. IsPass(pass)
  BY DEF PolicyInv, PassInv
<1>3. CASE Start \/ SkipCollector
  <2>1. PICK p, collectors : IsPass(p) /\ pass' = Begin(p, collectors)
    BY <1>2, <1>3, NoPassIsPass DEF Start, SkipCollector
  <2>2. QED
    BY <1>1, <2>1, BeginIsPass, PolicyInvElsewhere
<1>4. CASE ReadPolicies \/ ReadRulebase
  <2>1. PICK found : pass' = NextDevice([pass EXCEPT !.rules = found]) /\ pass.stage = "rules"
    BY <1>4 DEF ReadPolicies, ReadRulebase
  <2> DEFINE p == [pass EXCEPT !.rules = found]
  <2>2. IsPass(p) /\ p.stage = "rules"
    BY <1>2, <2>1 DEF IsPass, Fields
  <2>3. pass' = NextDevice(p)
    BY <2>1
  <2> HIDE DEF p
  <2>4. IsPass(pass') /\ pass'.stage \in Collecting \cup {"resolve"}
    BY <2>2, <2>3, NextDeviceIsPass DEF Collecting
  <2>5. QED
    BY <1>1, <2>4, PolicyInvElsewhere DEF Collecting
<1>5. CASE SkipDevice \/ SkipBook
  <2>1. pass' = NextDevice(pass) /\ pass.stage \in Collecting
    BY <1>5 DEF SkipDevice, SkipBook, Collecting
  <2>2. QED
    BY <1>1, <1>2, <2>1, NextDeviceIsPass, PolicyInvElsewhere DEF Collecting
<1>6. CASE ReadSection
  <2>1. pass.stage = "objects"
    BY <1>6 DEF ReadSection
  <2>2. CASE \E texts : pass' = [pass EXCEPT !.texts = texts]
    <3>1. IsPass(pass') /\ pass'.stage = "objects"
      BY <1>2, <2>1, <2>2 DEF IsPass, Fields
    <3>2. QED
      BY <1>1, <3>1, PolicyInvElsewhere
  <2>3. CASE \E items : pass' = NextDevice([pass EXCEPT !.items = items])
    <3>1. PICK items : pass' = NextDevice([pass EXCEPT !.items = items])
      BY <2>3
    <3> DEFINE p == [pass EXCEPT !.items = items]
    <3>2. IsPass(p) /\ p.stage = "objects"
      BY <1>2, <2>1 DEF IsPass, Fields
    <3>3. pass' = NextDevice(p)
      BY <3>1
    <3> HIDE DEF p
    <3>4. QED
      BY <1>1, <3>2, <3>3, NextDeviceIsPass, PolicyInvElsewhere DEF Collecting
  <2>4. QED
    BY <1>6, <2>2, <2>3 DEF ReadSection
<1>7. QED
  BY <1>3, <1>4, <1>5, <1>6

LEMMA PolicyInvResolve == PolicyInv /\ (Resolve \/ ResolveRaises) => PolicyInv'
<1> SUFFICES ASSUME PolicyInv, Resolve \/ ResolveRaises PROVE PolicyInv'
  OBVIOUS
<1>1. UNCHANGED <<entities, versions, books, behind>>
  BY DEF Resolve, ResolveRaises, tables, graph
<1>2. IsPass(pass') /\ pass'.stage \in {"idle", "entities"}
  BY NoPassIsPass DEF Resolve, ResolveRaises, PolicyInv, PassInv, IsPass, Fields
<1>3. QED
  BY <1>1, <1>2, PolicyInvElsewhere

(* Where an entity is written its history is behind, until the append.     *)
LEMMA PolicyInvEntities ==
    ASSUME PolicyInv, EntitiesCommit, UNCHANGED <<versions, books>>,
           \/ pass' = NoPass
           \/ pass' = [pass EXCEPT !.stage = "edges"]
    PROVE  PolicyInv'
<1>1. /\ entities' = Upserted(entities, pass.rows)
      /\ behind' = behind \cup DOMAIN pass.rows
  BY DEF EntitiesCommit
<1>2. HistoryAgreesWithEntities'
  BY <1>1 DEF PolicyInv, HistInv, HistoryAgreesWithEntities, Upserted
<1>3. HoldsChanges(versions)' /\ HoldsChanges(books)'
  BY DEF PolicyInv, HistInv, HoldsChanges, Changes
<1>4. \A k \in DOMAIN pass.rows : k \in DOMAIN entities' /\ entities'[k] = pass.rows[k]
  BY <1>1 DEF Upserted
<1>5. CASE pass' = NoPass
  BY <1>2, <1>3, <1>5, NoPassIsPass DEF PolicyInv, HistInv, PassInv
<1>6. CASE pass' = [pass EXCEPT !.stage = "edges"]
  <2>1. IsPass(pass') /\ pass'.stage = "edges" /\ pass'.rows = pass.rows
    BY <1>6 DEF PolicyInv, PassInv, IsPass, Fields
  <2>2. QED
    BY <1>2, <1>3, <1>4, <2>1 DEF PolicyInv, HistInv, PassInv
<1>7. QED
  BY <1>5, <1>6

LEMMA PolicyInvReplace ==
    PolicyInv /\ (ReplaceEntities \/ ReplaceEdges \/ ReplaceRaises) => PolicyInv'
<1>1. ASSUME PolicyInv, ReplaceEntities PROVE PolicyInv'
  BY <1>1, PolicyInvEntities DEF ReplaceEntities
<1>2. ASSUME PolicyInv, ReplaceEdges PROVE PolicyInv'
  <2>1. UNCHANGED <<entities, versions, books, behind>>
    BY <1>2 DEF ReplaceEdges
  <2>2. IsPass(pass') /\ pass'.stage = "read_versions" /\ pass'.rows = pass.rows
    BY <1>2 DEF ReplaceEdges, PolicyInv, PassInv, IsPass, Fields
  <2>3. HistInv'
    BY <1>2, <2>1 DEF PolicyInv, HistInv, HoldsChanges, Changes, HistoryAgreesWithEntities
  <2>4. QED
    BY <1>2, <2>1, <2>2, <2>3 DEF ReplaceEdges, PolicyInv, PassInv
<1>3. ASSUME PolicyInv, ReplaceRaises PROVE PolicyInv'
  <2>1. pass' = NoPass /\ UNCHANGED <<versions, books>>
    BY <1>3 DEF ReplaceRaises
  <2>2. CASE EntitiesCommit
    BY <1>3, <2>1, <2>2, PolicyInvEntities
  <2>3. CASE UNCHANGED <<entities, behind>>
    BY <1>3, <2>1, <2>3, NoPassIsPass, PolicyInvElsewhere
  <2>4. QED
    BY <1>3, <2>2, <2>3 DEF ReplaceRaises
<1>4. QED
  BY <1>1, <1>2, <1>3

LEMMA PolicyInvRead == PolicyInv /\ (ReadVersions \/ ReadBooks) => PolicyInv'
<1> SUFFICES ASSUME PolicyInv, ReadVersions \/ ReadBooks PROVE PolicyInv'
  OBVIOUS
<1>1. UNCHANGED <<entities, versions, books, behind>>
  BY DEF ReadVersions, ReadBooks, tables, graph
<1>2. HistInv'
  BY <1>1 DEF PolicyInv, HistInv, HoldsChanges, Changes, HistoryAgreesWithEntities
<1>3. CASE ReadVersions
  <2>1. /\ IsPass(pass') /\ pass'.stage = "append_versions" /\ pass'.rows = pass.rows
        /\ pass'.last = LatestRows(versions, DOMAIN pass.rows)
    BY <1>3 DEF ReadVersions, PolicyInv, PassInv, IsPass, Fields
  <2>2. pass.stage = "read_versions"
    BY <1>3 DEF ReadVersions
  <2>3. pass'.last = LatestRows(versions, DOMAIN pass.rows)'
    BY <1>1, <2>1 DEF LatestRows
  <2>4. QED
    BY <1>1, <1>2, <2>1, <2>2, <2>3 DEF PolicyInv, PassInv
<1>4. CASE ReadBooks
  <2>1. /\ IsPass(pass') /\ pass'.stage = "append_books" /\ pass'.items = pass.items
        /\ pass'.last = LatestRows(books, DOMAIN PassBooks)
    BY <1>4 DEF ReadBooks, PolicyInv, PassInv, IsPass, Fields
  <2>2. DOMAIN PassBooks' = DOMAIN PassBooks
    BY <2>1 DEF PassBooks
  <2>3. pass'.last = LatestRows(books, DOMAIN PassBooks)'
    BY <1>1, <2>1, <2>2 DEF LatestRows
  <2>4. QED
    BY <1>2, <2>1, <2>3 DEF PolicyInv, PassInv
<1>5. QED
  BY <1>3, <1>4

(* The versions: the pass goes on to the object books in any case.         *)
LEMMA PolicyInvVersions == PolicyInv /\ (AppendVersions \/ VersionsFail) => PolicyInv'
<1> SUFFICES ASSUME PolicyInv, AppendVersions \/ VersionsFail PROVE PolicyInv'
  OBVIOUS
<1>1. UNCHANGED <<entities, books>> /\ VersionsDone
  BY DEF AppendVersions, VersionsFail, graph
<1>2. IsPass(pass') /\ pass'.stage = "read_books"
  BY <1>1 DEF VersionsDone, PolicyInv, PassInv, IsPass, Fields
<1>3. PassInv'
  BY <1>2 DEF PassInv
<1>4. HoldsChanges(books)'
  BY <1>1 DEF PolicyInv, HistInv, HoldsChanges, Changes
<1>5. CASE UNCHANGED <<versions, behind>>
  <2>1. HoldsChanges(versions)' /\ HistoryAgreesWithEntities'
    BY <1>1, <1>5 DEF PolicyInv, HistInv, HoldsChanges, Changes, HistoryAgreesWithEntities
  <2>2. QED
    BY <1>3, <1>4, <2>1 DEF PolicyInv, HistInv
<1>6. CASE pass.stage = "append_versions" /\ VersionsCommit
  <2>1. /\ versions' = Appended(versions, PassVersions, pass.last)
        /\ behind' = behind \ DOMAIN pass.rows
    BY <1>6 DEF VersionsCommit
  <2>2. /\ DOMAIN PassVersions = DOMAIN pass.rows
        /\ \A k \in DOMAIN pass.rows : PassVersions[k] = pass.rows[k].version
    BY DEF PassVersions
  <2>3. pass.last = LatestRows(versions, DOMAIN PassVersions) /\ HoldsChanges(versions)
    BY <1>6, <2>2 DEF PolicyInv, PassInv, HistInv
  <2>4. /\ HoldsChanges(versions')
        /\ DOMAIN versions' = DOMAIN versions \cup DOMAIN pass.rows
        /\ \A k \in DOMAIN pass.rows : Last(versions'[k]) = pass.rows[k].version
        /\ \A k \in DOMAIN versions \ DOMAIN pass.rows : versions'[k] = versions[k]
    <3>1. /\ HoldsChanges(versions')
          /\ DOMAIN versions' = DOMAIN versions \cup DOMAIN PassVersions
          /\ \A k \in DOMAIN PassVersions : Last(versions'[k]) = PassVersions[k]
          /\ \A k \in DOMAIN versions \ DOMAIN PassVersions : versions'[k] = versions[k]
      BY <2>1, <2>3, AppendHoldsChanges
    <3>2. QED
      BY <2>2, <3>1
  <2>5. \A k \in DOMAIN pass.rows : k \in DOMAIN entities /\ entities[k] = pass.rows[k]
    BY <1>6 DEF PolicyInv, PassInv
  <2>6. HistoryAgreesWithEntities'
    <3> SUFFICES ASSUME NEW k \in DOMAIN entities \ behind'
                 PROVE  k \in DOMAIN versions' /\ Last(versions'[k]) = entities[k].version
      BY <1>1 DEF HistoryAgreesWithEntities, Last
    <3>1. CASE k \in DOMAIN pass.rows
      BY <2>4, <2>5, <3>1
    <3>2. CASE k \notin DOMAIN pass.rows
      BY <2>1, <2>4, <3>2 DEF PolicyInv, HistInv, HistoryAgreesWithEntities
    <3>3. QED
      BY <3>1, <3>2
  <2>7. HoldsChanges(versions)'
    BY <2>4 DEF HoldsChanges, Changes
  <2>8. QED
    BY <1>3, <1>4, <2>6, <2>7 DEF PolicyInv, HistInv
<1>7. QED
  BY <1>5, <1>6 DEF AppendVersions, VersionsFail

LEMMA PolicyInvBooks == PolicyInv /\ (AppendBooks \/ BooksFail) => PolicyInv'
<1> SUFFICES ASSUME PolicyInv, AppendBooks \/ BooksFail PROVE PolicyInv'
  OBVIOUS
<1>1. UNCHANGED <<entities, versions, behind>> /\ pass' = NoPass
  BY DEF AppendBooks, BooksFail, graph
<1>2. CASE UNCHANGED books
  BY <1>1, <1>2, NoPassIsPass, PolicyInvElsewhere
<1>3. CASE pass.stage = "append_books" /\ books' = Appended(books, PassBooks, pass.last)
  <2>1. HoldsChanges(books')
    BY <1>3, AppendHoldsChanges DEF PolicyInv, PassInv, HistInv
  <2>2. HoldsChanges(books)'
    BY <2>1 DEF HoldsChanges, Changes
  <2>3. HoldsChanges(versions)' /\ HistoryAgreesWithEntities'
    BY <1>1 DEF PolicyInv, HistInv, HoldsChanges, Changes, HistoryAgreesWithEntities
  <2>4. PassInv'
    BY <1>1, NoPassIsPass DEF PassInv
  <2>5. QED
    BY <2>2, <2>3, <2>4 DEF PolicyInv, HistInv
<1>4. QED
  BY <1>2, <1>3 DEF AppendBooks, BooksFail

LEMMA PolicyInvNext == PolicyInv /\ [Next]_vars => PolicyInv'
<1> SUFFICES ASSUME PolicyInv, [Next]_vars PROVE PolicyInv'
  OBVIOUS
<1>1. ASSUME UNCHANGED <<pass, entities, versions, books, behind>> PROVE PolicyInv'
  BY <1>1 DEF PolicyInv, PassInv, HistInv, PassBooks, LatestRows, HoldsChanges, Changes,
              HistoryAgreesWithEntities
<1>2. CASE (\E d \in Devices : EditPolicies(d) \/ EditObjects(d)) \/ UNCHANGED vars
  BY <1>1, <1>2 DEF EditPolicies, EditObjects, vars, tables, graph
<1>3. CASE Kill
  BY <1>3, NoPassIsPass, PolicyInvElsewhere DEF Kill, tables, graph
<1>4. CASE Start \/ PassStep
  BY <1>4, PolicyInvCollect, PolicyInvResolve, PolicyInvReplace, PolicyInvRead,
     PolicyInvVersions, PolicyInvBooks, Zenon DEF PassStep
<1>5. QED
  BY <1>2, <1>3, <1>4 DEF Next

LEMMA PolicyInvAlways == Spec => []PolicyInv
BY PolicyInvInit, PolicyInvNext, PTL DEF Spec

(* Neighbouring rows of a history differ, of policies and of object books: *)
(* an append compares with the rows that were read before it, and nothing  *)
(* else writes the history meanwhile (chwriter.py:82-155).                 *)
THEOREM HistoriesAlwaysChange == Spec => []HistoriesHoldChanges
<1>1. PolicyInv => HistoriesHoldChanges
  BY DEF PolicyInv, HistInv, HoldsChanges, Changes, HistoriesHoldChanges
<1>2. QED
  BY <1>1, PolicyInvAlways, PTL

(* The history of a rule ends with what its entity says, but for the rules *)
(* a pass has written and not yet recorded, or failed to.                  *)
THEOREM HistoriesAlwaysAgree == Spec => []HistoryAgreesWithEntities
BY PolicyInvAlways, PTL DEF PolicyInv, HistInv

----------------------------------------------------------------------------
(* The object books.                                                       *)

(* The sections read so far of a device, none of them made up.             *)
ReadOf(texts, d) ==
    /\ \E S : texts \in Seq(S)
    /\ Len(texts) < Len(SectionsOf(d))
    /\ \A n \in 1..Len(texts) : texts[n] \in held[d][SectionsOf(d)[n]]

Whole(item) ==
    LET sections == SectionsOf(item.device)
    IN  /\ DOMAIN item.texts = DOMAIN sections
        /\ \A n \in DOMAIN sections : item.texts[n] \in held[item.device][sections[n]]

(* Where a pass stands in its lists of collectors and devices.             *)
Placed(p) ==
    /\ IsPass(p)
    /\ p.collectors \in Seq(Collectors)
    /\ p.stage \in Collecting => p.collectors # <<>> /\ p.todo \in Seq(Devices) /\ p.todo # <<>>

Gathered(p) ==
    /\ \E S : p.items \in Seq(S)
    /\ \A i \in DOMAIN p.items : p.items[i].device \in Devices /\ Whole(p.items[i])

Reading(p) ==
    /\ Placed(p) /\ Gathered(p)
    /\ p.stage # "objects" => p.texts = <<>>
    /\ p.stage = "objects" => ReadOf(p.texts, Head(p.todo))

(* What the device says now is among what it has said during the pass.     *)
HeldInv ==
    \A d \in Devices :
        /\ DOMAIN objects[d] = Range(SectionsOf(d)) /\ DOMAIN held[d] = Range(SectionsOf(d))
        /\ \A s \in Range(SectionsOf(d)) : objects[d][s] \in held[d][s]

BookInv ==
    /\ DOMAIN objects = Devices /\ DOMAIN held = Devices
    /\ HeldInv
    /\ Reading(pass)

LEMMA SectionsShape ==
    ASSUME NEW d
    PROVE  /\ \E S : SectionsOf(d) \in Seq(S)
           /\ Len(SectionsOf(d)) \in Nat \ {0}
           /\ DOMAIN SectionsOf(d) = 1..Len(SectionsOf(d))
           /\ \A n \in DOMAIN SectionsOf(d) : SectionsOf(d)[n] \in Range(SectionsOf(d))
<1>1. JunosSections \in Seq({"address-book", "zones", "applications", "junos-defaults"})
  BY DEF JunosSections
<1>2. PanosSections \in Seq({"addresses", "address_groups", "services", "service_groups", "schedules"})
  BY DEF PanosSections
<1>3. DOMAIN JunosSections = 1..4 /\ Len(JunosSections) = 4
  BY DEF JunosSections
<1>4. DOMAIN PanosSections = 1..5 /\ Len(PanosSections) = 5
  BY DEF PanosSections
<1> DEFINE sections == SectionsOf(d)
<1>5. (\E S : sections \in Seq(S)) /\ Len(sections) \in {4, 5} /\ DOMAIN sections = 1..Len(sections)
  BY <1>1, <1>2, <1>3, <1>4 DEF SectionsOf
<1> HIDE DEF sections
<1>6. \A n \in DOMAIN sections : sections[n] \in Range(sections)
  BY DEF Range
<1>7. QED
  BY <1>5, <1>6 DEF sections

LEMMA DevicesOfCollector ==
    ASSUME NEW c \in Collectors
    PROVE  DevicesOf(c) \in Seq(Devices) /\ DevicesOf(c) # <<>>
<1>1. JunosDevices \in Seq(Devices) /\ JunosDevices # <<>>
  BY PolicyAssumption DEF Devices
<1>2. <<PanosDevice>> \in Seq(Devices) /\ <<PanosDevice>> # <<>>
  BY DEF Devices
<1>3. QED
  BY <1>1, <1>2 DEF DevicesOf

LEMMA MoreToDo ==
    ASSUME NEW S, NEW todo \in Seq(S), Len(todo) > 1
    PROVE  Tail(todo) \in Seq(S) /\ Tail(todo) # <<>>
<1> DEFINE rest == Tail(todo)
<1>1. Len(todo) \in Nat /\ Len(todo) > 1 /\ todo # <<>>
  OBVIOUS
<1>2. rest \in Seq(S) /\ Len(rest) = Len(todo) - 1
  BY <1>1, HeadTailProperties
<1> HIDE DEF rest
<1>3. rest # <<>>
  BY <1>1, <1>2
<1>4. QED
  BY <1>2, <1>3 DEF rest

LEMMA NothingReadYet ==
    ASSUME NEW d PROVE ReadOf(<<>>, d)
<1>1. <<>> \in Seq({}) /\ Len(<<>>) = 0
  OBVIOUS
<1>2. QED
  BY <1>1, SectionsShape DEF ReadOf

LEMMA BeginReads ==
    ASSUME NEW p, IsPass(p), Gathered(p), p.texts = <<>>,
           NEW collectors \in Seq(Collectors)
    PROVE  Reading(Begin(p, collectors))
<1> DEFINE q == Begin(p, collectors)
<1>1. CASE collectors = <<>>
  <2>1. /\ IsPass(q) /\ q.stage = "resolve" /\ q.collectors = <<>>
        /\ q.items = p.items /\ q.texts = <<>>
    BY <1>1 DEF Begin, IsPass, Fields
  <2> HIDE DEF q
  <2>2. QED
    BY <2>1 DEF Reading, Placed, Gathered, Collecting, q
<1>2. CASE collectors # <<>>
  <2>1. /\ IsPass(q) /\ q.stage = "rules" /\ q.collectors = collectors
        /\ q.todo = DevicesOf(Head(collectors)) /\ q.items = p.items /\ q.texts = <<>>
    BY <1>2 DEF Begin, IsPass, Fields
  <2>2. Head(collectors) \in Collectors
    BY <1>2
  <2> HIDE DEF q
  <2>3. QED
    BY <1>2, <2>1, <2>2, DevicesOfCollector DEF Reading, Placed, Gathered, Collecting, q
<1>3. QED
  BY <1>1, <1>2

(* The next device is begun with no section read.                          *)
LEMMA NextDeviceReads ==
    ASSUME NEW p, Placed(p), Gathered(p), p.stage \in Collecting,
           p.stage = "rules" => p.texts = <<>>
    PROVE  Reading(NextDevice(p))
<1> DEFINE q == NextDevice(p)
<1>0. IsPass(p) /\ p.todo \in Seq(Devices) /\ p.todo # <<>>
      /\ p.collectors \in Seq(Collectors) /\ p.collectors # <<>>
  BY DEF Placed
<1>1. CASE Len(p.todo) > 1
  <2>1. /\ IsPass(q) /\ q.stage = p.stage /\ q.collectors = p.collectors
        /\ q.todo = Tail(p.todo) /\ q.items = p.items /\ q.texts = <<>>
    BY <1>0, <1>1 DEF NextDevice, IsPass, Fields
  <2>2. Tail(p.todo) \in Seq(Devices) /\ Tail(p.todo) # <<>>
    BY <1>0, <1>1, MoreToDo
  <2> HIDE DEF q
  <2>3. QED
    BY <1>0, <2>1, <2>2, NothingReadYet DEF Reading, Placed, Gathered, q
<1>2. CASE ~(Len(p.todo) > 1) /\ p.stage = "rules"
  <2>1. /\ IsPass(q) /\ q.stage = "objects" /\ q.collectors = p.collectors
        /\ q.todo = DevicesOf(Head(p.collectors)) /\ q.items = p.items /\ q.texts = <<>>
    BY <1>0, <1>2 DEF NextDevice, IsPass, Fields
  <2>2. Head(p.collectors) \in Collectors
    BY <1>0
  <2> HIDE DEF q
  <2>3. QED
    BY <1>0, <2>1, <2>2, DevicesOfCollector, NothingReadYet DEF Reading, Placed, Gathered, q
<1>3. CASE ~(Len(p.todo) > 1) /\ p.stage # "rules"
  <2> DEFINE r == [p EXCEPT !.texts = <<>>]
  <2>1. q = Begin(r, Tail(p.collectors))
    BY <1>3 DEF NextDevice
  <2>2. IsPass(r) /\ r.texts = <<>> /\ r.items = p.items
    BY <1>0 DEF IsPass, Fields
  <2>3. Tail(p.collectors) \in Seq(Collectors)
    BY <1>0
  <2> HIDE DEF q, r
  <2>4. Gathered(r)
    BY <2>2 DEF Gathered
  <2>5. QED
    BY <2>1, <2>2, <2>3, <2>4, BeginReads DEF q
<1>4. QED
  BY <1>1, <1>2, <1>3

LEMMA BookInvInit == Init => BookInv
<1> SUFFICES ASSUME Init PROVE BookInv
  OBVIOUS
<1>1. DOMAIN objects = Devices /\ held = Snapshot /\ \A d \in Devices : objects[d] \in Objects[d]
  BY DEF Init
<1>2. \A d \in Devices : DOMAIN objects[d] = Range(SectionsOf(d))
  BY <1>1, PolicyAssumption
<1>3. DOMAIN held = Devices /\ HeldInv
  BY <1>1, <1>2 DEF Snapshot, HeldInv
<1>4. Reading(NoPass)
  <2>1. NoPass.collectors = <<>> /\ NoPass.items = <<>> /\ NoPass.texts = <<>>
    BY DEF NoPass
  <2>2. NoPass.collectors \in Seq(Collectors) /\ NoPass.items \in Seq({}) /\ DOMAIN NoPass.items = {}
    BY <2>1
  <2>3. QED
    BY <2>1, <2>2, NoPassIsPass DEF Reading, Placed, Gathered, Collecting
<1>5. QED
  BY <1>1, <1>3, <1>4 DEF Init, BookInv

(* What was held is still held: the marks of a pass stay true.             *)
LEMMA ReadingStays ==
    ASSUME BookInv, NEW p, Reading(p), DOMAIN held' = Devices,
           \A d \in Devices : DOMAIN held'[d] = DOMAIN held[d],
           \A d \in Devices : \A s \in Range(SectionsOf(d)) : held[d][s] \subseteq held'[d][s]
    PROVE  Reading(p)'
<1>1. Placed(p)'
  BY DEF Reading, Placed, IsPass
<1>2. ASSUME NEW i \in DOMAIN p.items PROVE p.items[i].device \in Devices /\ Whole(p.items[i])'
  <2>1. p.items[i].device \in Devices /\ Whole(p.items[i])
    BY DEF Reading, Gathered
  <2>2. QED
    BY <2>1, SectionsShape DEF Whole
<1>3. Gathered(p)'
  BY <1>2 DEF Reading, Gathered
<1>4. ASSUME p.stage = "objects" PROVE ReadOf(p.texts, Head(p.todo))'
  <2>1. ReadOf(p.texts, Head(p.todo)) /\ Head(p.todo) \in Devices
    BY <1>4 DEF Reading, Placed, Collecting
  <2>2. \A n \in 1..Len(p.texts) : n \in DOMAIN SectionsOf(Head(p.todo))
    BY <2>1, SectionsShape DEF ReadOf
  <2>3. QED
    BY <2>1, <2>2, SectionsShape DEF ReadOf
<1>5. QED
  BY <1>1, <1>3, <1>4 DEF Reading

LEMMA BookInvPass ==
    ASSUME BookInv, UNCHANGED <<objects, held>>, Reading(pass')
    PROVE  BookInv'
BY DEF BookInv, HeldInv, Reading, Placed, Gathered, Whole, ReadOf, IsPass

LEMMA BookInvStart == BookInv /\ Start => BookInv'
<1> SUFFICES ASSUME BookInv, Start PROVE BookInv'
  OBVIOUS
<1> DEFINE p == Begin(NoPass, Enabled)
<1>1. pass' = p /\ held' = Snapshot /\ UNCHANGED objects
  BY DEF Start, network
<1>2. DOMAIN held' = Devices /\ HeldInv'
  BY <1>1 DEF BookInv, HeldInv, Snapshot
<1>3. IsPass(p) /\ p.stage \in {"rules", "resolve"}
  BY NoPassIsPass, BeginIsPass
<1>4. p.items = <<>> /\ p.texts = <<>>
  BY DEF Begin, NoPass
<1>5. Placed(p)
  <2>1. NoPass.texts = <<>> /\ NoPass.items \in Seq({}) /\ DOMAIN NoPass.items = {}
    BY DEF NoPass
  <2>2. Gathered(NoPass)
    BY <2>1 DEF Gathered
  <2>3. QED
    BY <2>1, <2>2, NoPassIsPass, BeginReads, PolicyAssumption DEF Reading
<1> HIDE DEF p
<1>6. pass'.items \in Seq({}) /\ DOMAIN pass'.items = {}
  BY <1>1, <1>4
<1>7. Gathered(pass)'
  BY <1>6 DEF Gathered
<1>8. Reading(pass)'
  BY <1>1, <1>3, <1>4, <1>5, <1>7 DEF Reading, Placed, IsPass
<1>9. QED
  BY <1>1, <1>2, <1>8 DEF BookInv

LEMMA BookInvNextDevice ==
    ASSUME BookInv, UNCHANGED <<objects, held>>,
           ReadPolicies \/ ReadRulebase \/ SkipDevice \/ SkipBook
    PROVE  BookInv'
<1>1. IsPass(pass) /\ Placed(pass) /\ Gathered(pass)
  BY DEF BookInv, Reading, Placed
<1>2. CASE ReadPolicies \/ ReadRulebase
  <2>1. PICK found : pass' = NextDevice([pass EXCEPT !.rules = found]) /\ pass.stage = "rules"
    BY <1>2 DEF ReadPolicies, ReadRulebase
  <2> DEFINE p == [pass EXCEPT !.rules = found]
  <2>2. /\ IsPass(p) /\ p.stage = pass.stage /\ p.collectors = pass.collectors
        /\ p.todo = pass.todo /\ p.items = pass.items /\ p.texts = pass.texts
    BY <1>1 DEF IsPass, Fields
  <2>3. pass' = NextDevice(p)
    BY <2>1
  <2> HIDE DEF p
  <2>4. Placed(p) /\ Gathered(p) /\ p.texts = <<>>
    BY <1>1, <2>1, <2>2 DEF Placed, Gathered, BookInv, Reading
  <2>5. QED
    BY <2>1, <2>2, <2>3, <2>4, NextDeviceReads, BookInvPass DEF Collecting
<1>3. CASE SkipDevice \/ SkipBook
  <2>1. pass' = NextDevice(pass) /\ pass.stage \in Collecting
    BY <1>3 DEF SkipDevice, SkipBook, Collecting
  <2>2. pass.stage = "rules" => pass.texts = <<>>
    BY DEF BookInv, Reading
  <2>3. QED
    BY <1>1, <2>1, <2>2, NextDeviceReads, BookInvPass
<1>4. QED
  BY <1>2, <1>3

LEMMA BookInvSkipCollector ==
    ASSUME BookInv, UNCHANGED <<objects, held>>, SkipCollector
    PROVE  BookInv'
<1>1. pass.stage = "rules" /\ pass' = Begin(pass, Tail(pass.collectors))
  BY DEF SkipCollector
<1>2. IsPass(pass) /\ Gathered(pass) /\ pass.texts = <<>>
  BY <1>1 DEF BookInv, Reading, Placed
<1>3. Tail(pass.collectors) \in Seq(Collectors)
  BY <1>1 DEF BookInv, Reading, Placed, Collecting
<1>4. QED
  BY <1>1, <1>2, <1>3, BeginReads, BookInvPass

(* The section that is read is one the device holds; the last one makes    *)
(* the book whole.                                                         *)
LEMMA BookInvReadSection ==
    ASSUME BookInv, UNCHANGED <<objects, held>>, ReadSection
    PROVE  BookInv'
<1> DEFINE d == Head(pass.todo)
           m == Len(pass.texts)
           text == objects[d][SectionsOf(d)[m + 1]]
           texts == Append(pass.texts, text)
           item == [device |-> d, texts |-> texts]
<1>1. pass.stage = "objects" /\ IsPass(pass) /\ Placed(pass) /\ Gathered(pass)
  BY DEF ReadSection, BookInv, Reading, Placed
<1>2. d \in Devices
  BY <1>1 DEF Placed, Collecting
<1>3. ReadOf(pass.texts, d)
  BY <1>1 DEF BookInv, Reading
<1>4. PICK S : pass.texts \in Seq(S)
  BY <1>3 DEF ReadOf
<1>5. pass' = IF Len(texts) < Len(SectionsOf(d)) THEN [pass EXCEPT !.texts = texts]
              ELSE NextDevice([pass EXCEPT !.items = Append(pass.items, item)])
  BY DEF ReadSection
<1>6. m \in Nat /\ m < Len(SectionsOf(d)) /\ m + 1 \in DOMAIN SectionsOf(d)
  BY <1>3, <1>4, SectionsShape DEF ReadOf
<1>7. text \in held[d][SectionsOf(d)[m + 1]]
  BY <1>2, <1>6, SectionsShape DEF BookInv, HeldInv
<1> HIDE DEF text
<1>8. /\ texts \in Seq(S \cup {text}) /\ Len(texts) = m + 1
      /\ \A n \in 1..m : texts[n] = pass.texts[n]
      /\ texts[m + 1] = text
  <2>1. pass.texts \in Seq(S \cup {text})
    BY <1>4
  <2>2. QED
    BY <2>1, <1>4
<1> HIDE DEF texts, m
<1>9. \A n \in 1..Len(texts) : texts[n] \in held[d][SectionsOf(d)[n]]
  <2> SUFFICES ASSUME NEW n \in 1..Len(texts) PROVE texts[n] \in held[d][SectionsOf(d)[n]]
    OBVIOUS
  <2>1. CASE n = m + 1
    BY <1>7, <1>8, <2>1
  <2>2. CASE n \in 1..m
    BY <1>3, <1>8, <2>2 DEF ReadOf, m
  <2>3. QED
    BY <1>6, <1>8, <2>1, <2>2
<1>10. CASE Len(texts) < Len(SectionsOf(d))
  <2>1. ReadOf(texts, d)
    BY <1>8, <1>9, <1>10 DEF ReadOf
  <2>2. /\ IsPass(pass') /\ pass'.stage = "objects" /\ pass'.collectors = pass.collectors
        /\ pass'.todo = pass.todo /\ pass'.items = pass.items /\ pass'.texts = texts
    BY <1>1, <1>5, <1>10 DEF IsPass, Fields
  <2>3. Reading(pass')
    BY <1>1, <2>1, <2>2 DEF Reading, Placed, Gathered
  <2>4. QED
    BY <2>3, BookInvPass
<1>11. CASE ~(Len(texts) < Len(SectionsOf(d)))
  <2>1. DOMAIN texts = DOMAIN SectionsOf(d)
    <3>1. Len(SectionsOf(d)) = m + 1
      BY <1>6, <1>8, <1>11, SectionsShape
    <3>2. QED
      BY <1>8, <3>1, SectionsShape
  <2>2. item.device = d /\ item.texts = texts
    OBVIOUS
  <2> HIDE DEF item
  <2>3. Whole(item)
    BY <1>8, <1>9, <2>1, <2>2 DEF Whole
  <2> DEFINE p == [pass EXCEPT !.items = Append(pass.items, item)]
  <2>4. /\ IsPass(p) /\ p.stage = "objects" /\ p.collectors = pass.collectors
        /\ p.todo = pass.todo /\ p.items = Append(pass.items, item)
    BY <1>1 DEF IsPass, Fields
  <2>5. pass' = NextDevice(p)
    BY <1>5, <1>11 DEF item
  <2> HIDE DEF p
  <2>6. Gathered(p)
    <3>1. PICK T : pass.items \in Seq(T)
      BY <1>1 DEF Gathered
    <3>2. pass.items \in Seq(T \cup {item})
      BY <3>1
    <3>3. /\ p.items \in Seq(T \cup {item})
          /\ \A i \in DOMAIN p.items : p.items[i] = item \/ (i \in DOMAIN pass.items /\ p.items[i] = pass.items[i])
      BY <2>4, <3>2
    <3>4. ASSUME NEW i \in DOMAIN p.items PROVE p.items[i].device \in Devices /\ Whole(p.items[i])
      BY <1>1, <1>2, <2>2, <2>3, <3>3 DEF Gathered
    <3>5. QED
      BY <3>3, <3>4 DEF Gathered
  <2>7. Placed(p)
    BY <1>1, <2>4 DEF Placed
  <2>8. QED
    BY <2>4, <2>5, <2>6, <2>7, NextDeviceReads, BookInvPass DEF Collecting
<1>12. QED
  BY <1>10, <1>11

LEMMA BookInvAfter ==
    ASSUME BookInv, UNCHANGED <<objects, held>>,
           \/ pass' = NoPass
           \/ /\ IsPass(pass') /\ pass.stage \notin Collecting /\ pass'.stage \notin Collecting
              /\ pass'.collectors = pass.collectors /\ pass'.items = pass.items
              /\ pass'.texts = pass.texts
    PROVE  BookInv'
<1>1. CASE pass' = NoPass
  <2>1. NoPass.collectors = <<>> /\ NoPass.items = <<>> /\ NoPass.texts = <<>>
    BY DEF NoPass
  <2>2. NoPass.collectors \in Seq(Collectors) /\ NoPass.items \in Seq({}) /\ DOMAIN NoPass.items = {}
    BY <2>1
  <2>3. Reading(NoPass)
    BY <2>1, <2>2, NoPassIsPass DEF Reading, Placed, Gathered, Collecting
  <2>4. QED
    BY <1>1, <2>3, BookInvPass
<1>2. CASE pass' # NoPass
  <2>1. Reading(pass')
    BY <1>2 DEF BookInv, Reading, Placed, Gathered, Collecting
  <2>2. QED
    BY <2>1, BookInvPass
<1>3. QED
  BY <1>1, <1>2

LEMMA BookInvEdit == ASSUME BookInv, NEW d \in Devices, EditObjects(d) PROVE BookInv'
<1>1. PICK new \in Objects[d] :
        /\ objects' = [objects EXCEPT ![d] = new]
        /\ held' = [held EXCEPT ![d] = [s \in DOMAIN held[d] |-> held[d][s] \cup {new[s]}]]
  BY DEF EditObjects
<1>2. DOMAIN new = Range(SectionsOf(d))
  BY PolicyAssumption
<1>3. /\ DOMAIN objects' = Devices /\ DOMAIN held' = Devices
      /\ \A c \in Devices : DOMAIN held'[c] = DOMAIN held[c]
      /\ \A c \in Devices : \A s \in Range(SectionsOf(c)) : held[c][s] \subseteq held'[c][s]
  BY <1>1 DEF BookInv, HeldInv
<1>4. HeldInv'
  BY <1>1, <1>2 DEF BookInv, HeldInv
<1>5. pass' = pass /\ Reading(pass)
  BY DEF EditObjects, BookInv
<1>6. Reading(pass)'
  BY <1>3, <1>5, ReadingStays
<1>7. QED
  BY <1>3, <1>4, <1>6 DEF BookInv

LEMMA BookInvNext == BookInv /\ [Next]_vars => BookInv'
<1> SUFFICES ASSUME BookInv, [Next]_vars PROVE BookInv'
  OBVIOUS
<1>0. IsPass(pass)
  BY DEF BookInv, Reading, Placed
<1>1. CASE \E d \in Devices : EditPolicies(d) \/ EditObjects(d)
  <2>1. ASSUME NEW d \in Devices, EditPolicies(d) PROVE BookInv'
    BY <2>1, BookInvPass DEF EditPolicies, BookInv
  <2>2. QED
    BY <1>1, <2>1, BookInvEdit
<1>2. CASE Start
  BY <1>2, BookInvStart
<1>3. CASE ReadPolicies \/ ReadRulebase \/ SkipDevice \/ SkipBook
  BY <1>3, BookInvNextDevice DEF ReadPolicies, ReadRulebase, SkipDevice, SkipBook, network
<1>4. CASE SkipCollector
  BY <1>4, BookInvSkipCollector DEF SkipCollector, network
<1>5. CASE ReadSection
  BY <1>5, BookInvReadSection DEF ReadSection, network
<1>6. CASE Resolve \/ ReplaceEntities \/ ReplaceEdges \/ ReadVersions
  BY <1>0, <1>6, BookInvAfter
     DEF Resolve, ReplaceEntities, ReplaceEdges, ReadVersions, network, IsPass, Fields, Collecting
<1>7. CASE AppendVersions \/ VersionsFail \/ ReadBooks
  BY <1>0, <1>7, BookInvAfter
     DEF AppendVersions, VersionsFail, VersionsDone, ReadBooks, network, IsPass, Fields, Collecting
<1>8. CASE ResolveRaises \/ ReplaceRaises \/ AppendBooks \/ BooksFail \/ Kill
  BY <1>8, BookInvAfter DEF ResolveRaises, ReplaceRaises, AppendBooks, BooksFail, Kill, network
<1>9. CASE UNCHANGED vars
  BY <1>9, BookInvPass DEF vars, network, BookInv
<1>10. QED
  BY <1>1, <1>2, <1>3, <1>4, <1>5, <1>6, <1>7, <1>8, <1>9, Zenon DEF Next, PassStep

(* Every object book a pass gathers holds all sections of its device, each *)
(* as the device had it at some moment of the pass, whatever failed        *)
(* (collectors/junos.py:479-487, collectors/panos.py:364).                 *)
THEOREM BooksAlwaysWhole == Spec => []BooksWhole
<1>1. BookInv => BooksWhole
  BY DEF BookInv, Reading, Gathered, Whole, BooksWhole
<1>2. QED
  BY <1>1, BookInvInit, BookInvNext, PTL DEF Spec

----------------------------------------------------------------------------
(* The tables.                                                             *)

(* What a pass is about to upsert are its resolved rules.                  *)
Pending == pass.stage = "entities" => pass.rows = Resolved(pass.rules)

TypeInv == TypeOK /\ Pending

(* The rules of a pass and their counts name the same firewalls.           *)
LEMMA FirewallsOfRules ==
    ASSUME NEW all PROVE {k[1] : k \in DOMAIN Resolved(all)} = DOMAIN RuleCounts(all)
<1>1. DOMAIN Resolved(all) = {KeyOf(all[i]) : i \in DOMAIN all}
  BY DEF Resolved
<1>2. DOMAIN RuleCounts(all) = {all[i].device_name : i \in DOMAIN all}
  BY DEF RuleCounts
<1>3. \A i \in DOMAIN all : KeyOf(all[i])[1] = all[i].device_name
  BY DEF KeyOf
<1>4. QED
  BY <1>1, <1>2, <1>3

LEMMA TypeInvInit == Init => TypeInv
BY NoPassIsPass, PolicyAssumption DEF Init, TypeInv, TypeOK, Pending, Stages

(* A step that touches no table and does not resolve.                      *)
LEMMA TypeInvElsewhere ==
    ASSUME TypeInv, UNCHANGED <<entities, firewalls, edges, versions, books, behind, edits>>,
           pass'.stage \in Stages \ {"entities"}, failures' \in 0..MaxFailures
    PROVE  TypeInv'
BY DEF TypeInv, TypeOK, Pending

LEMMA FaultyCounts ==
    ASSUME TypeInv, Faulty
    PROVE  failures' \in 0..MaxFailures
BY PolicyAssumption DEF TypeInv, TypeOK, Faulty

LEMMA TypeInvEdit ==
    ASSUME TypeInv, NEW d \in Devices, EditPolicies(d) \/ EditObjects(d)
    PROVE  TypeInv'
<1>1. edits' \in 0..MaxEdits /\ UNCHANGED <<pass, tables, behind, failures>>
  BY PolicyAssumption DEF EditPolicies, EditObjects, TypeInv, TypeOK
<1>2. QED
  BY <1>1 DEF TypeInv, TypeOK, Pending, tables, graph

LEMMA TypeInvCollect ==
    ASSUME TypeInv, PolicyInv,
           \/ Start \/ ReadPolicies \/ ReadRulebase \/ SkipDevice \/ SkipCollector
           \/ ReadSection \/ SkipBook
    PROVE  TypeInv'
<1>0. IsPass(pass)
  BY DEF PolicyInv, PassInv
<1>1. UNCHANGED <<entities, firewalls, edges, versions, books, behind, edits>>
  BY DEF tables, graph, Start, ReadPolicies, ReadRulebase, SkipDevice, SkipCollector, ReadSection, SkipBook, counters
<1>2. failures' \in 0..MaxFailures
  <2>1. CASE ReadRulebase
    BY <2>1, PolicyAssumption DEF ReadRulebase, TypeInv, TypeOK
  <2>2. CASE SkipDevice \/ SkipCollector \/ SkipBook
    BY <2>2, FaultyCounts DEF SkipDevice, SkipCollector, SkipBook
  <2>3. CASE Start \/ ReadPolicies \/ ReadSection
    BY <2>3 DEF Start, ReadPolicies, ReadSection, counters, TypeInv, TypeOK
  <2>4. QED
    BY <2>1, <2>2, <2>3
<1>3. pass'.stage \in {"rules", "objects", "resolve"}
  <2>1. CASE Start
    BY <2>1, NoPassIsPass, BeginIsPass DEF Start
  <2>2. CASE SkipCollector
    BY <1>0, <2>2, BeginIsPass DEF SkipCollector
  <2>3. CASE SkipDevice \/ SkipBook
    BY <1>0, <2>3, NextDeviceIsPass DEF SkipDevice, SkipBook, Collecting
  <2>4. CASE ReadPolicies \/ ReadRulebase
    <3>1. PICK all : pass' = NextDevice([pass EXCEPT !.rules = all]) /\ pass.stage = "rules"
      BY <2>4 DEF ReadPolicies, ReadRulebase
    <3> DEFINE p == [pass EXCEPT !.rules = all]
    <3>2. IsPass(p) /\ p.stage = "rules" /\ pass' = NextDevice(p)
      BY <1>0, <3>1 DEF IsPass, Fields
    <3> HIDE DEF p
    <3>3. QED
      BY <3>2, NextDeviceIsPass DEF Collecting
  <2>5. CASE ReadSection
    <3>1. pass.stage = "objects"
      BY <2>5 DEF ReadSection
    <3>2. CASE \E texts : pass' = [pass EXCEPT !.texts = texts]
      BY <1>0, <3>1, <3>2 DEF IsPass, Fields
    <3>3. CASE \E items : pass' = NextDevice([pass EXCEPT !.items = items])
      <4>1. PICK items : pass' = NextDevice([pass EXCEPT !.items = items])
        BY <3>3
      <4> DEFINE p == [pass EXCEPT !.items = items]
      <4>2. IsPass(p) /\ p.stage = "objects" /\ pass' = NextDevice(p)
        BY <1>0, <3>1, <4>1 DEF IsPass, Fields
      <4> HIDE DEF p
      <4>3. QED
        BY <4>2, NextDeviceIsPass DEF Collecting
    <3>4. QED
      BY <2>5, <3>2, <3>3 DEF ReadSection
  <2>6. QED
    BY <2>1, <2>2, <2>3, <2>4, <2>5
<1>4. QED
  BY <1>1, <1>2, <1>3, TypeInvElsewhere DEF Stages

LEMMA TypeInvResolve ==
    ASSUME TypeInv, PolicyInv, Resolve \/ ResolveRaises
    PROVE  TypeInv'
<1>1. UNCHANGED <<tables, behind, counters>>
  BY DEF Resolve, ResolveRaises
<1>2. CASE Resolve
  <2>1. pass'.stage = "entities" /\ pass'.rows = Resolved(pass'.rules)
    BY <1>2 DEF Resolve, PolicyInv, PassInv, IsPass, Fields
  <2>2. TypeOK'
    BY <1>1, <2>1 DEF TypeInv, TypeOK, Stages, tables, graph, counters
  <2>3. QED
    BY <2>1, <2>2 DEF TypeInv, Pending, Resolved, KeyOf
<1>3. CASE ResolveRaises
  BY <1>1, <1>3, NoPassIsPass, TypeInvElsewhere
     DEF ResolveRaises, Stages, tables, graph, counters, TypeInv, TypeOK
<1>4. QED
  BY <1>2, <1>3

(* Entities and the count of their firewall come in one insert.            *)
LEMMA TypeInvEntities ==
    ASSUME TypeInv, pass.stage = "entities", EntitiesCommit,
           UNCHANGED <<edges, versions, books, edits>>, failures' \in 0..MaxFailures,
           pass'.stage \in Stages \ {"entities"}
    PROVE  TypeInv'
<1>1. DOMAIN entities' = DOMAIN entities \cup DOMAIN pass.rows
  BY DEF EntitiesCommit, Upserted
<1>2. DOMAIN firewalls' = DOMAIN firewalls \cup DOMAIN RuleCounts(pass.rules)
  BY DEF EntitiesCommit, Upserted
<1>3. behind' = behind \cup DOMAIN pass.rows
  BY DEF EntitiesCommit
<1>4. {k[1] : k \in DOMAIN pass.rows} = DOMAIN RuleCounts(pass.rules)
  BY FirewallsOfRules DEF TypeInv, Pending
<1>5. {k[1] : k \in DOMAIN entities'} = DOMAIN firewalls'
  BY <1>1, <1>2, <1>4 DEF TypeInv, TypeOK
<1>6. QED
  BY <1>1, <1>3, <1>5 DEF TypeInv, TypeOK, Pending

LEMMA TypeInvReplace ==
    ASSUME TypeInv, PolicyInv, ReplaceEntities \/ ReplaceEdges \/ ReplaceRaises
    PROVE  TypeInv'
<1>1. ASSUME pass.stage = "edges", edges' \in {edges, edges \cup DOMAIN pass.rows},
             UNCHANGED <<entities, firewalls, versions, books, behind, edits>>,
             failures' \in 0..MaxFailures, pass'.stage \in Stages \ {"entities"}
      PROVE  TypeInv'
  <2>1. DOMAIN pass.rows \subseteq DOMAIN entities
    BY <1>1 DEF PolicyInv, PassInv
  <2>2. QED
    BY <1>1, <2>1 DEF TypeInv, TypeOK, Pending
<1>2. CASE ReplaceEntities
  <2>1. pass'.stage = "edges" /\ failures' \in 0..MaxFailures
    BY <1>2 DEF ReplaceEntities, PolicyInv, PassInv, IsPass, Fields, counters, TypeInv, TypeOK
  <2>2. QED
    BY <1>2, <2>1, TypeInvEntities DEF ReplaceEntities, Stages, counters
<1>3. CASE ReplaceEdges
  <2>1. pass'.stage = "read_versions" /\ failures' \in 0..MaxFailures
    BY <1>3 DEF ReplaceEdges, PolicyInv, PassInv, IsPass, Fields, counters, TypeInv, TypeOK
  <2>2. QED
    BY <1>1, <1>3, <2>1 DEF ReplaceEdges, Stages, counters
<1>4. CASE ReplaceRaises
  <2>1. /\ pass'.stage = "idle" /\ failures' \in 0..MaxFailures
        /\ UNCHANGED <<versions, books, edits>>
    BY <1>4, NoPassIsPass, FaultyCounts DEF ReplaceRaises
  <2>2. CASE pass.stage = "entities" /\ EntitiesCommit /\ edges' = edges
    BY <2>1, <2>2, TypeInvEntities DEF Stages
  <2>3. CASE UNCHANGED <<entities, firewalls, behind, edges>>
    BY <2>1, <2>3, TypeInvElsewhere DEF Stages
  <2>4. CASE /\ pass.stage = "edges" /\ edges' = edges \cup DOMAIN pass.rows
             /\ UNCHANGED <<entities, firewalls, behind>>
    BY <1>1, <2>1, <2>4 DEF Stages
  <2>5. \/ /\ pass.stage = "entities" /\ UNCHANGED edges
           /\ EntitiesCommit \/ UNCHANGED <<entities, firewalls, behind>>
        \/ /\ pass.stage = "edges" /\ UNCHANGED <<entities, firewalls, behind>>
           /\ edges' = edges \cup DOMAIN pass.rows \/ UNCHANGED edges
    BY <1>4, Zenon DEF ReplaceRaises
  <2>6. QED
    BY <2>2, <2>3, <2>4, <2>5
<1>5. QED
  BY <1>2, <1>3, <1>4

LEMMA TypeInvVersions ==
    ASSUME TypeInv, PolicyInv, ReadVersions \/ AppendVersions \/ VersionsFail
    PROVE  TypeInv'
<1>1. UNCHANGED <<graph, books, edits>> /\ failures' \in 0..MaxFailures
  <2>1. CASE VersionsFail
    BY <2>1, FaultyCounts DEF VersionsFail
  <2>2. CASE ReadVersions \/ AppendVersions
    BY <2>2 DEF ReadVersions, AppendVersions, tables, counters, TypeInv, TypeOK
  <2>3. QED
    BY <2>1, <2>2
<1>2. pass'.stage \in {"append_versions", "read_books"}
  BY DEF ReadVersions, AppendVersions, VersionsFail, VersionsDone, PolicyInv, PassInv, IsPass, Fields
<1>3. CASE UNCHANGED <<versions, behind>>
  BY <1>1, <1>2, <1>3, TypeInvElsewhere DEF Stages, graph
<1>4. CASE pass.stage = "append_versions" /\ VersionsCommit
  <2>1. DOMAIN pass.rows \subseteq DOMAIN entities
    BY <1>4 DEF PolicyInv, PassInv
  <2>2. DOMAIN versions' \subseteq DOMAIN versions \cup DOMAIN pass.rows
    BY <1>4 DEF VersionsCommit, Appended, Changed, PassVersions
  <2>3. behind' \subseteq behind
    BY <1>4 DEF VersionsCommit
  <2>4. QED
    BY <1>1, <1>2, <2>1, <2>2, <2>3 DEF TypeInv, TypeOK, Pending, Stages, graph
<1>5. CASE ReadVersions
  BY <1>3, <1>5 DEF ReadVersions, tables
<1>6. CASE AppendVersions
  BY <1>4, <1>6 DEF AppendVersions
<1>7. CASE VersionsFail
  <2>1. (pass.stage = "append_versions" /\ VersionsCommit) \/ UNCHANGED <<versions, behind>>
    BY <1>7, Zenon DEF VersionsFail
  <2>2. QED
    BY <1>3, <1>4, <2>1
<1>8. QED
  BY <1>5, <1>6, <1>7

LEMMA TypeInvBooks ==
    ASSUME TypeInv, PolicyInv, BookInv, ReadBooks \/ AppendBooks \/ BooksFail
    PROVE  TypeInv'
<1>1. UNCHANGED <<graph, versions, behind, edits>> /\ failures' \in 0..MaxFailures
  <2>1. CASE BooksFail
    BY <2>1, FaultyCounts DEF BooksFail
  <2>2. CASE ReadBooks \/ AppendBooks
    BY <2>2 DEF ReadBooks, AppendBooks, tables, counters, TypeInv, TypeOK
  <2>3. QED
    BY <2>1, <2>2
<1>2. pass'.stage \in {"append_books", "idle"}
  BY NoPassIsPass DEF ReadBooks, AppendBooks, BooksFail, PolicyInv, PassInv, IsPass, Fields
<1>3. CASE UNCHANGED books
  BY <1>1, <1>2, <1>3, TypeInvElsewhere DEF Stages, graph
<1>4. CASE books' = Appended(books, PassBooks, pass.last)
  <2>1. DOMAIN PassBooks \subseteq Devices
    BY DEF PassBooks, BookInv, Reading, Gathered
  <2>2. DOMAIN books' \subseteq DOMAIN books \cup DOMAIN PassBooks
    BY <1>4 DEF Appended, Changed
  <2>3. QED
    BY <1>1, <1>2, <2>1, <2>2 DEF TypeInv, TypeOK, Pending, Stages, graph
<1>5. CASE ReadBooks
  BY <1>3, <1>5 DEF ReadBooks, tables
<1>6. CASE AppendBooks
  BY <1>4, <1>6 DEF AppendBooks
<1>7. CASE BooksFail
  <2>1. books' = Appended(books, PassBooks, pass.last) \/ UNCHANGED books
    BY <1>7, Zenon DEF BooksFail
  <2>2. QED
    BY <1>3, <1>4, <2>1
<1>8. QED
  BY <1>5, <1>6, <1>7

LEMMA TypeInvNext == TypeInv /\ PolicyInv /\ BookInv /\ [Next]_vars => TypeInv'
<1> SUFFICES ASSUME TypeInv, PolicyInv, BookInv, [Next]_vars PROVE TypeInv'
  OBVIOUS
<1>1. CASE UNCHANGED vars
  BY <1>1 DEF vars, TypeInv, TypeOK, Pending, tables, graph, counters
<1>2. CASE Kill
  BY <1>2, NoPassIsPass, FaultyCounts, TypeInvElsewhere DEF Kill, Stages, tables, graph, TypeInv, TypeOK
<1>3. CASE \E d \in Devices : EditPolicies(d) \/ EditObjects(d)
  BY <1>3, TypeInvEdit
<1>4. CASE Start \/ PassStep
  BY <1>4, TypeInvCollect, TypeInvResolve, TypeInvReplace, TypeInvVersions, TypeInvBooks, Zenon
     DEF PassStep
<1>5. QED
  BY <1>1, <1>2, <1>3, <1>4 DEF Next

(* The tables stay well typed, and refer to each other as the code means   *)
(* them to: no edge and no version without its entity, and a firewall for  *)
(* every device that has one, whatever fails in between.                   *)
THEOREM TypeCorrect == Spec => []TypeOK
<1>1. TypeInv => TypeOK
  BY DEF TypeInv
<1>2. Spec => [](PolicyInv /\ BookInv)
  BY PolicyInvAlways, BookInvInit, BookInvNext, PTL DEF Spec
<1>3. QED
  BY <1>1, <1>2, TypeInvInit, TypeInvNext, PTL DEF Spec

----------------------------------------------------------------------------
(* The parsers of the Junos collector, which the passes above leave open:  *)
(* module JunosParser, one line at a time.                                 *)

(* A rule as the parser of policies keeps it, for the policy of a key.     *)
RuleFields == {"key", "position", "enabled", "action", "lists", "flags", "scheduler_name",
               "match_unknown"}

KeptRule(rule, k) ==
    /\ rule = [f \in RuleFields |-> rule[f]] /\ rule.key = k
    /\ DOMAIN rule.lists = Lists
    /\ \A c \in Lists : \E S : rule.lists[c] \in Seq(S)

ListValues(list) == {list[i] : i \in DOMAIN list}
OfKey(L, k) == {l \in L : l.key = k}
ValuesIn(L, c) == {l.value : l \in {m \in L : m.clause = c}}
SeedOf(k, c) == IF k.scope = "zonepair" /\ c \in Zones THEN {k[c]} ELSE {}

(* The rule of k says what the lines L say, before the last loop.          *)
Records(rule, k, L) ==
    /\ \A c \in Lists : ListValues(rule.lists[c]) = SeedOf(k, c) \cup ValuesIn(L, c)
    /\ rule.flags = {c \in Flags : \E l \in L : l.clause = c}
    /\ rule.match_unknown <=> \E l \in L : l.clause \in Unparsed
    /\ rule.scheduler_name # NoScheduler <=> \E l \in L : l.clause = "scheduler_name"

LEMMA AppendedList ==
    ASSUME NEW values, \E S : values \in Seq(S), NEW v
    PROVE  /\ \E S : Append(values, v) \in Seq(S)
           /\ ListValues(Append(values, v)) = ListValues(values) \cup {v}
<1>1. PICK S : values \in Seq(S)
  OBVIOUS
<1>2. values \in Seq(S \cup {v})
  BY <1>1
<1> DEFINE more == Append(values, v)
<1>3. /\ more \in Seq(S \cup {v}) /\ Len(values) \in Nat
      /\ DOMAIN values = 1..Len(values) /\ DOMAIN more = 1..(Len(values) + 1)
      /\ more[Len(values) + 1] = v
      /\ \A i \in 1..Len(values) : more[i] = values[i]
  BY <1>2
<1> HIDE DEF more
<1>4. DOMAIN more = DOMAIN values \cup {Len(values) + 1} /\ \A i \in DOMAIN values : more[i] = values[i]
  BY <1>3
<1>5. ListValues(more) = ListValues(values) \cup {v}
  BY <1>3, <1>4 DEF ListValues
<1>6. \E T : more \in Seq(T)
  BY <1>3
<1>7. QED
  BY <1>5, <1>6 DEF more

LEMMA EmptyList ==
    ASSUME NEW list, \E S : list \in Seq(S)
    PROVE  list = <<>> <=> ListValues(list) = {}
<1>1. PICK S : list \in Seq(S)
  OBVIOUS
<1>2. CASE list = <<>>
  BY <1>2 DEF ListValues
<1>3. CASE list # <<>>
  <2>1. 1 \in DOMAIN list
    BY <1>1, <1>3
  <2>2. QED
    BY <1>3, <2>1 DEF ListValues
<1>4. QED
  BY <1>2, <1>3

LEMMA NewRuleKept ==
    ASSUME NEW k, NEW order
    PROVE  KeptRule(NewRule(k, order), k) /\ Records(NewRule(k, order), k, {})
<1> DEFINE rule == NewRule(k, order)
<1>1. /\ rule = [f \in RuleFields |-> rule[f]] /\ rule.key = k
      /\ rule.lists = [c \in Lists |-> IF k.scope = "zonepair" /\ c \in Zones THEN <<k[c]>> ELSE <<>>]
      /\ rule.flags = {} /\ rule.match_unknown = FALSE /\ rule.scheduler_name = NoScheduler
  BY DEF NewRule, RuleFields
<1> HIDE DEF rule
<1>2. ASSUME NEW c \in Lists
      PROVE  /\ \E S : rule.lists[c] \in Seq(S)
             /\ ListValues(rule.lists[c]) = SeedOf(k, c) \cup ValuesIn({}, c)
  <2>1. <<k[c]>> \in Seq({k[c]}) /\ <<>> \in Seq({k[c]})
    OBVIOUS
  <2>2. rule.lists[c] \in Seq({k[c]})
    BY <1>1, <2>1
  <2>3. ListValues(<<k[c]>>) = {k[c]} /\ ListValues(<<>>) = {} /\ ValuesIn({}, c) = {}
    BY DEF ListValues, ValuesIn
  <2>4. QED
    BY <1>1, <2>2, <2>3 DEF SeedOf
<1>3. KeptRule(rule, k)
  BY <1>1, <1>2 DEF KeptRule
<1>4. Records(rule, k, {})
  BY <1>1, <1>2 DEF Records
<1>5. QED
  BY <1>3, <1>4 DEF rule

(* A clause adds to its rule what its line says, and takes nothing back.   *)
LEMMA ClauseRecords ==
    ASSUME NEW rule, NEW k, NEW L, KeptRule(rule, k), Records(rule, k, L), NEW line,
           line.clause = "scheduler_name" => line.value # NoScheduler
    PROVE  KeptRule(WithClause(rule, line), k) /\ Records(WithClause(rule, line), k, L \cup {line})
<1> DEFINE next == WithClause(rule, line)
<1>1. rule = [f \in RuleFields |-> rule[f]]
  BY DEF KeptRule
<1>2. /\ next = [f \in RuleFields |-> next[f]] /\ next.key = rule.key
      /\ next.lists = IF line.clause \in Lists
                      THEN [rule.lists EXCEPT ![line.clause] = Append(rule.lists[line.clause], line.value)]
                      ELSE rule.lists
      /\ next.flags = IF line.clause \in Flags THEN rule.flags \cup {line.clause} ELSE rule.flags
      /\ next.scheduler_name = IF line.clause = "scheduler_name" THEN line.value
                               ELSE rule.scheduler_name
  <2> DEFINE enabled == rule.enabled /\ ~line.inactive
             unknown == rule.match_unknown \/ FailsClosed(line)
             lists == Listed(rule.lists, line)
             flags == IF line.clause \in Flags THEN rule.flags \cup {line.clause} ELSE rule.flags
             scheduler == IF line.clause = "scheduler_name" THEN line.value ELSE rule.scheduler_name
             action == IF line.clause = "then" /\ line.value \in DOMAIN ActionMap
                       THEN ActionMap[line.value] ELSE rule.action
  <2>1. next = [rule EXCEPT !.enabled = enabled, !.lists = lists, !.flags = flags,
                            !.scheduler_name = scheduler, !.action = action,
                            !.match_unknown = unknown]
    BY Zenon DEF WithClause
  <2> HIDE DEF next, enabled, unknown, lists, flags, scheduler, action
  <2>2. /\ next = [f \in RuleFields |-> next[f]] /\ next.key = rule.key
        /\ next.lists = lists /\ next.flags = flags /\ next.scheduler_name = scheduler
    BY <1>1, <2>1 DEF RuleFields
  <2>3. QED
    BY <2>2 DEF lists, Listed, flags, scheduler
<1>3. next.match_unknown <=> rule.match_unknown \/ line.clause \in Unparsed
  BY <1>1 DEF WithClause, RuleFields, FailsClosed
<1> HIDE DEF next
<1>4. ASSUME NEW c \in Lists
      PROVE  /\ \E S : next.lists[c] \in Seq(S)
             /\ ListValues(next.lists[c]) = SeedOf(k, c) \cup ValuesIn(L \cup {line}, c)
  <2> DEFINE values == rule.lists[c]
  <2>1. (\E S : values \in Seq(S)) /\ ListValues(values) = SeedOf(k, c) \cup ValuesIn(L, c)
    BY DEF KeptRule, Records
  <2>2. CASE c = line.clause
    <3>1. next.lists[c] = Append(values, line.value)
      BY <1>2, <2>2 DEF KeptRule
    <3> HIDE DEF values
    <3>2. /\ \E S : Append(values, line.value) \in Seq(S)
          /\ ListValues(Append(values, line.value)) = ListValues(values) \cup {line.value}
      BY <2>1, AppendedList
    <3>3. ValuesIn(L \cup {line}, c) = ValuesIn(L, c) \cup {line.value}
      BY <2>2 DEF ValuesIn
    <3>4. QED
      BY <2>1, <3>1, <3>2, <3>3
  <2>3. CASE c # line.clause
    <3>1. next.lists[c] = values
      BY <1>2, <2>3 DEF KeptRule
    <3>2. ValuesIn(L \cup {line}, c) = ValuesIn(L, c)
      BY <2>3 DEF ValuesIn
    <3>3. QED
      BY <2>1, <3>1, <3>2
  <2>4. QED
    BY <2>2, <2>3
<1>5. DOMAIN next.lists = Lists
  BY <1>2 DEF KeptRule
<1>6. KeptRule(next, k)
  BY <1>2, <1>4, <1>5 DEF KeptRule
<1>7. next.flags = {c \in Flags : \E l \in L \cup {line} : l.clause = c}
  BY <1>2 DEF Records
<1>8. next.match_unknown <=> \E l \in L \cup {line} : l.clause \in Unparsed
  BY <1>3 DEF Records
<1>9. next.scheduler_name # NoScheduler <=> \E l \in L \cup {line} : l.clause = "scheduler_name"
  BY <1>2 DEF Records
<1>10. Records(next, k, L \cup {line})
  BY <1>4, <1>7, <1>8, <1>9 DEF Records
<1>11. QED
  BY <1>6, <1>10 DEF next

(* Every line of a policy is of a rule, and its rule says so.              *)
RulesInv ==
    command \in {"policies", "hit-count"} =>
        /\ lines \subseteq PolicyLines
        /\ \A l \in lines : l.key \in DOMAIN rules
        /\ \A k \in DOMAIN rules :
              k.name \in Names /\ KeptRule(rules[k], k) /\ Records(rules[k], k, OfKey(lines, k))

(* A name is counted after one row and ambiguous after the second.         *)
HitsInv ==
    /\ command # "hit-count" => hits = NoHits /\ shown = {} /\ named = [n \in Names |-> 0]
    /\ command = "hit-count" =>
          /\ named \in [Names -> Nat] /\ shown \subseteq HitRows
          /\ hits = [counts |-> hits.counts, ambiguous |-> hits.ambiguous]
          /\ DOMAIN hits.counts = {n \in Names : named[n] = 1}
          /\ hits.ambiguous = {n \in Names : named[n] > 1}
          /\ \A r \in shown : named[r.key.name] # 0
          /\ \A n \in DOMAIN hits.counts : \E r \in shown : r.key.name = n /\ r.count = hits.counts[n]
          /\ \A r \in shown : r.key.name \in DOMAIN hits.counts => hits.counts[r.key.name] = r.count

(* A line that the parser of applications does not understand.             *)
Foreign(line, name) ==
    line.object = "application" /\ line.name = name /\ line.leaf \notin AllowedFields

AppsInv ==
    command = "applications" =>
        /\ lines \subseteq ApplicationLines
        /\ apps = [applications |-> apps.applications, application_sets |-> apps.application_sets]
        /\ \A l \in lines : l.object = "application" => l.name \in DOMAIN apps.applications
        /\ \A n \in DOMAIN apps.applications :
              LET entry == apps.applications[n]
              IN  /\ entry = [kind |-> entry.kind, fields |-> entry.fields]
                  /\ entry.kind \in {"unknown", "application"}
                  /\ entry.kind = "unknown" <=> \E l \in lines : Foreign(l, n)

ParserInv ==
    /\ command \notin {"policies", "hit-count"} => rules = <<>>
    /\ RulesInv /\ HitsInv /\ AppsInv

LEMMA ParserStarts == ParserInit => ParserInv
<1> SUFFICES ASSUME ParserInit PROVE ParserInv
  OBVIOUS
<1>1. /\ rules = <<>> /\ hits = NoHits /\ lines = {} /\ shown = {} /\ command # "hit-count"
      /\ apps = [applications |-> <<>>, application_sets |-> <<>>]
      /\ named = [n \in Names |-> 0]
  BY DEF ParserInit, NoPolicies, NoApplications
<1>2. RulesInv
  BY <1>1 DEF RulesInv
<1>3. HitsInv
  BY <1>1 DEF HitsInv
<1>4. AppsInv
  BY <1>1 DEF AppsInv
<1>5. QED
  BY <1>1, <1>2, <1>3, <1>4 DEF ParserInv

LEMMA RulesStep ==
    ASSUME ParserInv, NEW line \in PolicyLines, PolicyLine(line)
    PROVE  ParserInv'
<1>1. /\ command = "policies" /\ command' = "policies" /\ lines' = lines \cup {line}
      /\ rules' = ReadPolicyLine(rules, line) /\ UNCHANGED <<hits, apps, shown, named>>
  BY DEF PolicyLine, Take
<1> DEFINE k0 == line.key
           rule == IF k0 \in DOMAIN rules THEN rules[k0] ELSE NewRule(k0, Cardinality(DOMAIN rules))
           next == WithClause(rule, line)
           L == OfKey(lines, k0)
<1>2. rules' = Put(rules, k0, next)
  BY <1>1 DEF ReadPolicyLine
<1>3. KeptRule(rule, k0) /\ Records(rule, k0, L)
  <2>1. CASE k0 \in DOMAIN rules
    BY <1>1, <2>1 DEF ParserInv, RulesInv
  <2>2. CASE k0 \notin DOMAIN rules
    <3>1. L = {}
      BY <1>1, <2>2 DEF ParserInv, RulesInv, OfKey
    <3>2. QED
      BY <2>2, <3>1, NewRuleKept
  <2>3. QED
    BY <2>1, <2>2
<1> HIDE DEF rule
<1>4. line.clause = "scheduler_name" => line.value # NoScheduler
  BY ParserAssumption
<1>5. KeptRule(next, k0) /\ Records(next, k0, L \cup {line})
  <2> HIDE DEF L, k0
  <2>1. QED
    BY <1>3, <1>4, ClauseRecords
<1> HIDE DEF next
<1>6. /\ DOMAIN rules' = DOMAIN rules \cup {k0} /\ rules'[k0] = next
      /\ \A k \in DOMAIN rules \ {k0} : rules'[k] = rules[k]
  BY <1>2 DEF Put
<1>7. ASSUME NEW k \in DOMAIN rules'
      PROVE  k.name \in Names /\ KeptRule(rules'[k], k) /\ Records(rules'[k], k, OfKey(lines', k))
  <2>1. CASE k = k0
    <3>1. OfKey(lines', k) = L \cup {line}
      BY <1>1, <2>1 DEF OfKey
    <3>2. k.name \in Names
      BY <2>1 DEF Names
    <3>3. QED
      BY <1>5, <1>6, <2>1, <3>1, <3>2
  <2>2. CASE k # k0
    <3>1. OfKey(lines', k) = OfKey(lines, k)
      BY <1>1, <2>2 DEF OfKey
    <3>2. QED
      BY <1>1, <1>6, <2>2, <3>1 DEF ParserInv, RulesInv
  <2>3. QED
    BY <2>1, <2>2
<1>8. lines' \subseteq PolicyLines /\ \A l \in lines' : l.key \in DOMAIN rules'
  BY <1>1, <1>6 DEF ParserInv, RulesInv
<1>9. RulesInv'
  BY <1>7, <1>8 DEF RulesInv, KeptRule, Records, Names
<1>10. HitsInv' /\ AppsInv'
  BY <1>1 DEF ParserInv, HitsInv, AppsInv, Names
<1>11. QED
  BY <1>1, <1>9, <1>10 DEF ParserInv

LEMMA AskStep == ASSUME ParserInv, AskHitCount PROVE ParserInv'
<1>1. /\ command = "policies" /\ command' = "hit-count"
      /\ UNCHANGED <<rules, hits, apps, lines, shown, named>>
  BY DEF AskHitCount, accumulators, readings
<1>2. RulesInv'
  BY <1>1 DEF ParserInv, RulesInv, KeptRule, Records, OfKey, Names
<1>3. hits = [counts |-> <<>>, ambiguous |-> {}] /\ shown = {} /\ named = [n \in Names |-> 0]
  BY <1>1 DEF ParserInv, HitsInv, NoHits
<1>4. HitsInv'
  BY <1>1, <1>3 DEF HitsInv, Names
<1>5. QED
  BY <1>1, <1>2, <1>4 DEF ParserInv, AppsInv

LEMMA HitsStep ==
    ASSUME ParserInv, NEW row \in HitRows, HitLine(row)
    PROVE  ParserInv'
<1> DEFINE name == row.key.name
<1>1. /\ command = "hit-count" /\ command' = "hit-count" /\ shown' = shown \cup {row}
      /\ UNCHANGED <<rules, lines>> /\ hits' = ReadHitRow(hits, row)
      /\ named' = [named EXCEPT ![name] = named[name] + 1]
  BY DEF HitLine
<1>2. /\ named \in [Names -> Nat] /\ shown \subseteq HitRows
      /\ hits = [counts |-> hits.counts, ambiguous |-> hits.ambiguous]
      /\ DOMAIN hits.counts = {n \in Names : named[n] = 1}
      /\ hits.ambiguous = {n \in Names : named[n] > 1}
      /\ \A r \in shown : named[r.key.name] # 0
      /\ \A n \in DOMAIN hits.counts : \E r \in shown : r.key.name = n /\ r.count = hits.counts[n]
      /\ \A r \in shown : r.key.name \in DOMAIN hits.counts => hits.counts[r.key.name] = r.count
  BY <1>1 DEF ParserInv, HitsInv
<1>3. name \in Names /\ \A r \in shown : r.key.name \in Names
  BY <1>2 DEF Names
<1>4. /\ named' \in [Names -> Nat] /\ named'[name] = named[name] + 1
      /\ \A n \in Names \ {name} : named'[n] = named[n]
  BY <1>1, <1>2, <1>3
<1>5. RulesInv'
  BY <1>1 DEF ParserInv, RulesInv, KeptRule, Records, OfKey, Names
<1>6. \A r \in shown' : named'[r.key.name] # 0
  BY <1>1, <1>2, <1>3, <1>4
<1>7. CASE name \in DOMAIN hits.counts \cup hits.ambiguous
  <2>1. hits' = [counts |-> Drop(hits.counts, name), ambiguous |-> hits.ambiguous \cup {name}]
    BY <1>1, <1>7 DEF ReadHitRow
  <2>2. /\ hits' = [counts |-> hits'.counts, ambiguous |-> hits'.ambiguous]
        /\ hits'.ambiguous = hits.ambiguous \cup {name}
        /\ DOMAIN hits'.counts = DOMAIN hits.counts \ {name}
        /\ \A n \in DOMAIN hits'.counts : hits'.counts[n] = hits.counts[n]
    BY <2>1 DEF Drop
  <2>3. named[name] >= 1
    BY <1>2, <1>3, <1>7
  <2>4. /\ DOMAIN hits'.counts = {n \in Names : named'[n] = 1}
        /\ hits'.ambiguous = {n \in Names : named'[n] > 1}
    BY <1>2, <1>3, <1>4, <2>2, <2>3
  <2>5. /\ \A n \in DOMAIN hits'.counts : \E r \in shown' : r.key.name = n /\ r.count = hits'.counts[n]
        /\ \A r \in shown' : r.key.name \in DOMAIN hits'.counts => hits'.counts[r.key.name] = r.count
    BY <1>1, <1>2, <2>2
  <2>6. HitsInv'
    BY <1>1, <1>2, <1>4, <1>6, <2>2, <2>4, <2>5 DEF HitsInv, Names
  <2>7. QED
    BY <1>1, <1>5, <2>6 DEF ParserInv, AppsInv
<1>8. CASE name \notin DOMAIN hits.counts \cup hits.ambiguous
  <2>1. hits' = [hits EXCEPT !.counts = Put(hits.counts, name, row.count)]
    BY <1>1, <1>8 DEF ReadHitRow
  <2>2. /\ hits' = [counts |-> hits'.counts, ambiguous |-> hits'.ambiguous]
        /\ hits'.ambiguous = hits.ambiguous
        /\ hits'.counts = Put(hits.counts, name, row.count)
    BY <1>2, <2>1
  <2>3. /\ DOMAIN hits'.counts = DOMAIN hits.counts \cup {name}
        /\ hits'.counts[name] = row.count
        /\ \A n \in DOMAIN hits.counts \ {name} : hits'.counts[n] = hits.counts[n]
    BY <2>2 DEF Put
  <2>4. named[name] = 0
    BY <1>2, <1>3, <1>8
  <2>5. /\ DOMAIN hits'.counts = {n \in Names : named'[n] = 1}
        /\ hits'.ambiguous = {n \in Names : named'[n] > 1}
    BY <1>2, <1>3, <1>4, <2>2, <2>3, <2>4
  <2>6. \A r \in shown : r.key.name # name
    BY <1>2, <2>4
  <2>7. /\ \A n \in DOMAIN hits'.counts : \E r \in shown' : r.key.name = n /\ r.count = hits'.counts[n]
        /\ \A r \in shown' : r.key.name \in DOMAIN hits'.counts => hits'.counts[r.key.name] = r.count
    BY <1>1, <1>2, <1>8, <2>3, <2>6
  <2>8. HitsInv'
    BY <1>1, <1>2, <1>4, <1>6, <2>2, <2>5, <2>7 DEF HitsInv, Names
  <2>9. QED
    BY <1>1, <1>5, <2>8 DEF ParserInv, AppsInv
<1>9. QED
  BY <1>7, <1>8

LEMMA AppsStep ==
    ASSUME ParserInv, NEW line \in ApplicationLines, ApplicationLine(line)
    PROVE  ParserInv'
<1>1. /\ command = "applications" /\ command' = "applications" /\ lines' = lines \cup {line}
      /\ apps' = ReadApplicationLine(apps, line) /\ UNCHANGED <<rules, hits, shown, named>>
  BY DEF ApplicationLine, Take
<1>2. line.object \in {"application", "application-set"}
  BY ParserAssumption
<1>3. /\ lines \subseteq ApplicationLines
      /\ apps = [applications |-> apps.applications, application_sets |-> apps.application_sets]
      /\ \A l \in lines : l.object = "application" => l.name \in DOMAIN apps.applications
      /\ \A n \in DOMAIN apps.applications :
            /\ apps.applications[n] = [kind |-> apps.applications[n].kind,
                                       fields |-> apps.applications[n].fields]
            /\ apps.applications[n].kind \in {"unknown", "application"}
            /\ apps.applications[n].kind = "unknown" <=> \E l \in lines : Foreign(l, n)
  BY <1>1 DEF ParserInv, AppsInv
<1>4. CASE line.object = "application-set"
  <2>1. apps' = [apps EXCEPT !.application_sets = WithMember(apps.application_sets, line)]
    BY <1>1, <1>4 DEF ReadApplicationLine
  <2>2. /\ apps' = [applications |-> apps'.applications, application_sets |-> apps'.application_sets]
        /\ apps'.applications = apps.applications
    BY <1>3, <2>1
  <2>3. \A n : ~Foreign(line, n)
    BY <1>4 DEF Foreign
  <2>4. AppsInv'
    BY <1>1, <1>3, <1>4, <2>2, <2>3 DEF AppsInv, Foreign
  <2>5. QED
    BY <1>1, <2>4 DEF ParserInv, RulesInv, HitsInv, Names
<1>5. CASE line.object = "application"
  <2> DEFINE known == apps.applications
             entry == IF line.name \in DOMAIN known THEN known[line.name] ELSE NewApplication
             next == ApplyApplicationTokens(entry, line)
  <2>1. apps' = [apps EXCEPT !.applications = Put(known, line.name, next)]
    BY <1>1, <1>5 DEF ReadApplicationLine
  <2>2. /\ entry = [kind |-> entry.kind, fields |-> entry.fields]
        /\ entry.kind \in {"unknown", "application"}
        /\ entry.kind = "unknown" <=> \E l \in lines : Foreign(l, line.name)
    <3>1. CASE line.name \in DOMAIN known
      BY <1>3, <3>1
    <3>2. CASE line.name \notin DOMAIN known
      <4>1. entry = [kind |-> "application", fields |-> <<>>]
        BY <3>2 DEF NewApplication
      <4>2. ~\E l \in lines : Foreign(l, line.name)
        BY <1>3, <3>2 DEF Foreign
      <4>3. QED
        BY <4>1, <4>2
    <3>3. QED
      BY <3>1, <3>2
  <2> HIDE DEF entry
  <2>3. /\ next = [kind |-> next.kind, fields |-> next.fields]
        /\ next.kind \in {"unknown", "application"}
        /\ next.kind = "unknown" <=> entry.kind = "unknown" \/ line.leaf \notin AllowedFields
    <3>1. CASE entry.kind = "unknown" \/ line.leaf \notin AllowedFields
      BY <3>1 DEF ApplyApplicationTokens, UnknownApplication
    <3>2. CASE ~(entry.kind = "unknown" \/ line.leaf \notin AllowedFields)
      <4>1. next = [entry EXCEPT !.fields = Put(entry.fields, line.leaf, line.value)]
        BY <3>2 DEF ApplyApplicationTokens
      <4>2. next = [kind |-> next.kind, fields |-> next.fields] /\ next.kind = entry.kind
        BY <2>2, <4>1
      <4>3. QED
        BY <2>2, <3>2, <4>2
    <3>3. QED
      BY <3>1, <3>2
  <2> HIDE DEF next
  <2>4. next.kind = "unknown" <=> \E l \in lines' : Foreign(l, line.name)
    BY <1>1, <1>5, <2>2, <2>3 DEF Foreign
  <2>5. /\ apps' = [applications |-> apps'.applications, application_sets |-> apps'.application_sets]
        /\ apps'.applications = Put(known, line.name, next)
    BY <1>3, <2>1
  <2>6. /\ DOMAIN apps'.applications = DOMAIN known \cup {line.name}
        /\ apps'.applications[line.name] = next
        /\ \A n \in DOMAIN known \ {line.name} : apps'.applications[n] = known[n]
    BY <2>5 DEF Put
  <2>7. ASSUME NEW n \in DOMAIN apps'.applications
        PROVE  /\ apps'.applications[n] = [kind |-> apps'.applications[n].kind,
                                           fields |-> apps'.applications[n].fields]
               /\ apps'.applications[n].kind \in {"unknown", "application"}
               /\ apps'.applications[n].kind = "unknown" <=> \E l \in lines' : Foreign(l, n)
    <3>1. CASE n = line.name
      BY <2>3, <2>4, <2>6, <3>1
    <3>2. CASE n # line.name
      <4>1. apps'.applications[n] = known[n] /\ n \in DOMAIN known
        BY <2>6, <3>2
      <4>2. (\E l \in lines' : Foreign(l, n)) <=> (\E l \in lines : Foreign(l, n))
        BY <1>1, <3>2 DEF Foreign
      <4>3. QED
        BY <1>3, <4>1, <4>2
    <3>3. QED
      BY <3>1, <3>2
  <2>8. \A l \in lines' : l.object = "application" => l.name \in DOMAIN apps'.applications
    BY <1>1, <1>3, <2>6
  <2>9. AppsInv'
    BY <1>1, <1>3, <2>5, <2>7, <2>8 DEF AppsInv, Foreign
  <2>10. QED
    BY <1>1, <2>9 DEF ParserInv, RulesInv, HitsInv, Names
<1>6. QED
  BY <1>2, <1>4, <1>5

LEMMA ParserSteps ==
    ASSUME ParserInv, [ParserNext]_parserVars
    PROVE  ParserInv'
<1>1. CASE UNCHANGED parserVars
  <2>1. UNCHANGED <<command, rules, hits, apps, lines, shown, named>>
    BY <1>1 DEF parserVars, accumulators, readings
  <2>2. RulesInv'
    BY <2>1 DEF ParserInv, RulesInv, OfKey
  <2>3. HitsInv'
    BY <2>1 DEF ParserInv, HitsInv
  <2>4. AppsInv'
    BY <2>1 DEF ParserInv, AppsInv
  <2>5. QED
    BY <2>1, <2>2, <2>3, <2>4 DEF ParserInv
<1>2. ASSUME NEW line \in AddressLines, AddressLine(line) PROVE ParserInv'
  BY <1>2 DEF AddressLine, Take, ParserInv, RulesInv, HitsInv, AppsInv, Names
<1>3. QED
  BY <1>1, <1>2, RulesStep, AskStep, HitsStep, AppsStep DEF ParserNext

LEMMA ParserAlways == ParserSpec => []ParserInv
<1>1. ParserInv /\ [ParserNext]_parserVars => ParserInv'
  BY ParserSteps
<1>2. QED
  BY <1>1, ParserStarts, PTL DEF ParserSpec

(* What a rule says after the last loop.                                   *)
LEMMA FinishedRule ==
    ASSUME NEW rule, NEW k, KeptRule(rule, k)
    PROVE  /\ Finished(rule).flags = rule.flags
           /\ Finished(rule).match_unknown <=>
                 \/ rule.match_unknown
                 \/ \E c \in Unresolved : ListValues(rule.lists[c]) # {}
                 \/ rule.scheduler_name # NoScheduler
           /\ \A c \in Lists :
                 ListValues(Finished(rule).lists[c]) =
                     IF c \in Zones /\ k.scope = "global" /\ ListValues(rule.lists[c]) = {}
                     THEN {"any"} ELSE ListValues(rule.lists[c])
<1> DEFINE lists == [c \in Lists |-> IF c \in Zones /\ rule.key.scope = "global" /\ rule.lists[c] = <<>>
                                     THEN <<"any">> ELSE rule.lists[c]]
           unknown == \/ rule.match_unknown
                      \/ \E c \in Unresolved : rule.lists[c] # <<>>
                      \/ rule.scheduler_name # NoScheduler
<1>1. Finished(rule) = [rule EXCEPT !.lists = lists, !.match_unknown = unknown]
  BY Zenon DEF Finished
<1>2. rule = [f \in RuleFields |-> rule[f]] /\ rule.key = k
  BY DEF KeptRule
<1>3. \A c \in Lists : rule.lists[c] = <<>> <=> ListValues(rule.lists[c]) = {}
  BY EmptyList DEF KeptRule
<1>4. ListValues(<<"any">>) = {"any"}
  BY DEF ListValues
<1>5. ASSUME NEW c \in Lists
      PROVE  ListValues(lists[c]) =
                 IF c \in Zones /\ k.scope = "global" /\ ListValues(rule.lists[c]) = {}
                 THEN {"any"} ELSE ListValues(rule.lists[c])
  BY <1>2, <1>3, <1>4
<1>6. unknown <=> \/ rule.match_unknown
                  \/ \E c \in Unresolved : ListValues(rule.lists[c]) # {}
                  \/ rule.scheduler_name # NoScheduler
  BY <1>3 DEF Lists
<1> HIDE DEF lists, unknown
<1>7. /\ Finished(rule).flags = rule.flags /\ Finished(rule).lists = lists
      /\ Finished(rule).match_unknown = unknown
  BY <1>1, <1>2 DEF RuleFields
<1>8. QED
  BY <1>5, <1>6, <1>7

(* A rule is match_unknown exactly if a line of its policy could not be    *)
(* matched, and its lists and flags are what its lines said: no line is    *)
(* lost and none is made up, but that the zones of a global policy are     *)
(* "any" when none was read (junos.py:78-175); for any lines, in any order *)
(* and number.                                                             *)
THEOREM NothingReadsAsWildcard == ParserSpec => []NoSilentWildcard
<1>1. ASSUME ParserInv, NEW k \in DOMAIN rules
      PROVE  /\ Finished(rules[k]).match_unknown <=>
                   \E l \in LinesOf(k) : l.clause \in Unparsed \cup Unresolved \cup {"scheduler_name"}
             /\ Finished(rules[k]).flags = {c \in Flags : \E l \in LinesOf(k) : l.clause = c}
             /\ \A c \in Lists : ListValues(Finished(rules[k]).lists[c]) =
                    IF c \in Zones /\ k.scope = "global" /\ ValuesIn(LinesOf(k), c) = {}
                    THEN {"any"} ELSE SeedOf(k, c) \cup ValuesIn(LinesOf(k), c)
  <2> DEFINE rule == rules[k]
             L == LinesOf(k)
  <2>1. command \in {"policies", "hit-count"}
    BY <1>1 DEF ParserInv
  <2>2. KeptRule(rule, k) /\ Records(rule, k, L)
    BY <1>1, <2>1 DEF ParserInv, RulesInv, LinesOf, OfKey
  <2> HIDE DEF rule, L
  <2>3. /\ Finished(rule).flags = rule.flags
        /\ Finished(rule).match_unknown <=>
              \/ rule.match_unknown
              \/ \E c \in Unresolved : ListValues(rule.lists[c]) # {}
              \/ rule.scheduler_name # NoScheduler
        /\ \A c \in Lists :
              ListValues(Finished(rule).lists[c]) =
                  IF c \in Zones /\ k.scope = "global" /\ ListValues(rule.lists[c]) = {}
                  THEN {"any"} ELSE ListValues(rule.lists[c])
    BY <2>2, FinishedRule
  <2>4. \A c \in Unresolved : ListValues(rule.lists[c]) # {} <=> \E l \in L : l.clause = c
    <3>1. Unresolved \subseteq Lists \ Zones
      BY DEF Lists, Unresolved, Zones
    <3>2. ASSUME NEW c \in Unresolved PROVE ListValues(rule.lists[c]) = ValuesIn(L, c)
      BY <2>2, <3>1 DEF Records, SeedOf
    <3>3. ASSUME NEW c PROVE ValuesIn(L, c) # {} <=> \E l \in L : l.clause = c
      BY DEF ValuesIn
    <3>4. QED
      BY <3>2, <3>3
  <2>5. Finished(rule).match_unknown <=>
            \E l \in L : l.clause \in Unparsed \cup Unresolved \cup {"scheduler_name"}
    BY <2>2, <2>3, <2>4 DEF Records
  <2>6. ASSUME NEW c \in Lists
        PROVE  ListValues(Finished(rule).lists[c]) =
                   IF c \in Zones /\ k.scope = "global" /\ ValuesIn(L, c) = {}
                   THEN {"any"} ELSE SeedOf(k, c) \cup ValuesIn(L, c)
    <3>1. ListValues(rule.lists[c]) = SeedOf(k, c) \cup ValuesIn(L, c)
      BY <2>2 DEF Records
    <3>2. k.scope = "global" => SeedOf(k, c) = {}
      BY DEF SeedOf
    <3>3. QED
      BY <2>3, <3>1, <3>2
  <2>7. QED
    BY <2>2, <2>3, <2>5, <2>6 DEF Records, rule, L
<1>2. ParserInv => NoSilentWildcard
  <2>1. \A k \in DOMAIN rules, c \in Lists :
            /\ ValuesIn(LinesOf(k), c) = ReadFor(k, c)
            /\ c \notin Zones => SeedOf(k, c) = {}
            /\ c \in Zones /\ k.scope = "zonepair" => SeedOf(k, c) = {k[c]}
            /\ c \in Zones /\ k.scope = "global" => SeedOf(k, c) = {}
    BY DEF ValuesIn, ReadFor, SeedOf
  <2>2. Zones \subseteq Lists
    BY DEF Lists
  <2>3. QED
    BY <1>1, <2>1, <2>2 DEF NoSilentWildcard, RuleOf, ValuesOf, ListValues
<1>3. QED
  BY <1>2, ParserAlways, PTL

(* An application is known only if every line about it was understood, in  *)
(* whatever order the lines came (junos.py:300-333).                       *)
THEOREM UnknownStaysUnknown == ParserSpec => []UnknownApplicationsStay
<1>1. ParserInv => UnknownApplicationsStay
  BY DEF ParserInv, AppsInv, Foreign, UnknownApplicationsStay, AllowedFields
<1>2. QED
  BY <1>1, ParserAlways, PTL

(* collect gives a rule a count exactly if one row of the table bore its   *)
(* name, and then the count of that row; a rule whose own row was read,    *)
(* with its zones, has no other policy's (junos.py:178-206, 426-430); for  *)
(* any policies and rows, in any order and number.                         *)
THEOREM CountsNeverGuessed == ParserSpec => []CountsUnambiguous
<1>1. ParserInv => CountsUnambiguous
  <2> SUFFICES ASSUME ParserInv, command = "hit-count"
               PROVE  /\ DOMAIN Counted = {k \in DOMAIN rules : named[k.name] = 1}
                      /\ \A k \in DOMAIN Counted :
                            \E r \in shown : r.key.name = k.name /\ r.count = Counted[k]
                      /\ \A r \in shown : r.key \in DOMAIN Counted => Counted[r.key] = r.count
    BY DEF CountsUnambiguous
  <2>1. /\ DOMAIN Counted = {k \in DOMAIN rules : k.name \in DOMAIN hits.counts}
        /\ \A k \in DOMAIN Counted : Counted[k] = hits.counts[k.name]
    BY DEF Counted
  <2>2. \A k \in DOMAIN rules : k.name \in Names
    BY DEF ParserInv, RulesInv
  <2>3. /\ DOMAIN hits.counts = {n \in Names : named[n] = 1}
        /\ \A n \in DOMAIN hits.counts : \E r \in shown : r.key.name = n /\ r.count = hits.counts[n]
        /\ \A r \in shown : r.key.name \in DOMAIN hits.counts => hits.counts[r.key.name] = r.count
    BY DEF ParserInv, HitsInv
  <2>4. QED
    BY <2>1, <2>2, <2>3
<1>2. QED
  BY <1>1, ParserAlways, PTL
=============================================================================
