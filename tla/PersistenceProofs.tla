--------------------------- MODULE PersistenceProofs ---------------------------
(***************************************************************************)
(* Theorems about what survives in flash, for any number of statistics,    *)
(* resets, attempts and versions.                                          *)
(***************************************************************************)
EXTENDS PersistenceProps, TLAPS

-----------------------------------------------------------------------------
(* The writes of an operation.                                             *)

Spaces == {"device", "system", "main", "backup"}
Saved  == {"system", "main", "backup"}

\* The writes differ in kind or place.
LEMMA WritesDiffer ==
  /\ \A p, q \in Spaces : Erase(p) = Erase(q) => p = q
  /\ \A p \in Spaces, q \in Saved : Erase(p) # Save(q)
  /\ \A p \in Spaces : Erase(p) \notin {Load, Close, First, Last}
  /\ \A p \in Saved : Save(p) \notin {Load, Close, First, Last}
  /\ \A p, q \in Saved : Save(p) = Save(q) => p = q
  /\ Load \notin {Close, First, Last}
  BY DEF Erase, Save, Load, Close, First, Last

\* What the next write is.
LEMMA NextWrite ==
  ASSUME todo \in Seq(Writes), todo # <<>>
  PROVE  /\ Does("erase") => Place \in Spaces /\ Head(todo) = Erase(Place)
         /\ Does("save") => Place \in Saved /\ Head(todo) = Save(Place)
         /\ Does("load") => Head(todo) = Load
         /\ Does("close") => Head(todo) = Close
         /\ Does("first") => Head(todo) = First
         /\ Does("last") => Head(todo) = Last
         /\ Has(Head(todo))
<1>1. Head(todo) \in Writes /\ Head(todo) = todo[1] /\ 1 \in 1..Len(todo)
  OBVIOUS
<1>2. Has(Head(todo))
  BY <1>1 DEF Has
<1>3. QED
  BY <1>1, <1>2 DEF Writes, Does, Place, Spaces, Saved, Erase, Save, Load, Close, First, Last

\* A write done is gone, and the others remain.
LEMMA TailHas ==
  ASSUME todo \in Seq(Writes), Len(todo) <= 5, todo # <<>>, todo' = Tail(todo), NEW CONSTANT w
  PROVE  /\ todo' \in Seq(Writes) /\ Len(todo') <= 5
         /\ Has(w)' => Has(w)
         /\ Has(w) /\ Head(todo) # w => Has(w)'
<1>1. Len(todo) \in Nat /\ Len(todo) > 0 /\ Len(todo') = Len(todo) - 1 /\ todo' \in Seq(Writes)
  OBVIOUS
<1>2. \A i \in 1..Len(todo') : todo'[i] = todo[i + 1]
  BY <1>1
<1>3. Has(w)' => Has(w)
  <2>1. ASSUME NEW i \in 1..Len(todo'), todo'[i] = w PROVE Has(w)
    <3>1. i + 1 \in 1..Len(todo) /\ todo[i + 1] = w
      BY <1>1, <1>2, <2>1
    <3>2. QED
      BY <3>1 DEF Has
  <2>2. QED
    BY <2>1 DEF Has
<1>4. Has(w) /\ Head(todo) # w => Has(w)'
  <2>1. ASSUME NEW i \in 1..Len(todo), todo[i] = w, Head(todo) # w PROVE Has(w)'
    <3>1. i - 1 \in 1..Len(todo') /\ todo'[i - 1] = w
      BY <1>1, <1>2, <2>1
    <3>2. QED
      BY <3>1 DEF Has
  <2>2. QED
    BY <2>1 DEF Has
<1>5. QED
  BY <1>1, <1>3, <1>4

LEMMA EmptyHas == ASSUME NEW CONSTANT w, todo' = <<>> PROVE ~Has(w)'
<1>1. Len(<<>>) = 0
  OBVIOUS
<1>2. Len(todo') = 0
  BY <1>1, Zenon
<1>3. QED
  BY <1>2 DEF Has

-----------------------------------------------------------------------------
(* The configuration manager.                                              *)

\* Statistics and the place they are kept in.
LEMMA StatsTyped ==
  ASSUME ConfigTypeOK
  PROVE  /\ Absent \notin Counted /\ resets \in Nat
         /\ \A r \in 0..MaxResets : Zero(r) \in Counted /\ Zero(r).count = 0 /\ Zero(r).since = r
         /\ stats["ram"] \in Counted
         /\ \A p \in {"main", "backup"} : stats[p] \in Counted \cup {Absent}
         /\ DOMAIN stats = {"main", "backup", "ram"}
         /\ \A s \in Counted : s.count \in 0..MaxCount
<1> USE ConfigAssumption
<1>1. Absent \notin Counted
  BY DEF Absent, Counted
<1>2. resets \in Nat
  BY DEF ConfigTypeOK
<1>3. \A r \in 0..MaxResets : Zero(r) \in Counted /\ Zero(r).count = 0 /\ Zero(r).since = r
  BY DEF Zero, Counted
<1>4. DOMAIN stats = {"main", "backup", "ram"}
      /\ \A p \in {"main", "backup", "ram"} : stats[p] \in Counted \cup {Absent}
  BY DEF ConfigTypeOK
<1>5. stats["ram"] \in Counted
  BY <1>4 DEF ConfigTypeOK
<1>6. \A s \in Counted : s.count \in 0..MaxCount
  BY DEF Counted
<1>7. QED
  BY <1>1, <1>2, <1>3, <1>4, <1>5, <1>6

\* An operation that begins.
LEMMA BeginKeeps ==
  ASSUME ConfigInv, SaveDevice \/ Cleanup \/ FactoryReset
  PROVE  ConfigInv'
<1> USE DEF ConfigInv
<1>1. configReady /\ configReady' /\ todo = <<>>
      /\ UNCHANGED <<configReady, settings, system, stats, identity, resets>>
  BY DEF SaveDevice, Cleanup, FactoryReset, Starts
<1>2. CASE SaveDevice
  <2>1. todo' = <<First, Last>> /\ UNCHANGED <<spoiled, kept>>
    BY <1>2 DEF SaveDevice, Starts
  <2>2. todo' \in Seq(Writes) /\ Len(todo') <= 5
    BY <2>1 DEF Writes
  <2>3. \A p \in Spaces : ~Has(Erase(p))'
    BY <2>1, WritesDiffer DEF Has
  <2>4. ~Has(Load)' /\ \A p \in Saved : ~Has(Save(p))'
    BY <2>1, WritesDiffer DEF Has
  <2>5. QED
    BY <1>1, <2>1, <2>2, <2>3, <2>4
    DEF ConfigTypeOK, OneOperation, KeptIsStored, StatsAreRecent, Spaces, Saved
<1>3. CASE Cleanup
  <2>1. todo' = <<Save("system"), Save("main"), Save("backup"), Close>> /\ UNCHANGED <<spoiled, kept>>
    BY <1>3 DEF Cleanup, Starts
  <2>2. todo' \in Seq(Writes) /\ Len(todo') <= 5
    BY <2>1 DEF Writes
  <2>3. \A p \in Spaces : ~Has(Erase(p))'
    BY <2>1, WritesDiffer DEF Has, Saved
  <2>4. ~Has(Load)'
    BY <2>1, WritesDiffer DEF Has, Saved
  <2>5. QED
    BY <1>1, <2>1, <2>2, <2>3, <2>4
    DEF ConfigTypeOK, OneOperation, KeptIsStored, StatsAreRecent, Spaces, Saved
<1>4. CASE FactoryReset
  <2>1. todo' = <<Erase("device"), Erase("system"), Erase("main"), Erase("backup"), Load>>
        /\ spoiled' = FALSE /\ kept' = 0 /\ resets < MaxResets
    BY <1>4 DEF FactoryReset, Starts
  <2>2. todo' \in Seq(Writes) /\ Len(todo') <= 5
    BY <2>1 DEF Writes
  <2>3. Has(Erase("main"))' /\ Has(Erase("backup"))'
    <3>1. 3 \in 1..Len(todo') /\ 4 \in 1..Len(todo')
          /\ todo'[3] = Erase("main") /\ todo'[4] = Erase("backup")
      BY <2>1
    <3>2. QED
      BY <3>1 DEF Has
  <2>4. \A p \in Saved : ~Has(Save(p))'
    BY <2>1, WritesDiffer DEF Has, Spaces
  <2>5. ConfigTypeOK'
    <3>1. kept' \in 0..MaxCount
      BY <2>1, ConfigAssumption
    <3>2. QED
      BY <1>1, <2>1, <2>2, <3>1 DEF ConfigTypeOK
  <2>6. stats["ram"].count \in Nat
    BY StatsTyped, ConfigAssumption
  <2>7. QED
    BY <1>1, <2>1, <2>3, <2>4, <2>5, <2>6
    DEF OneOperation, KeptIsStored, StatsAreRecent, Saved
<1>5. QED
  BY <1>2, <1>3, <1>4

\* A single write between operations.
LEMMA RestingKeeps ==
  ASSUME ConfigInv, SaveSystem \/ LoadSystem \/ ResetStats
  PROVE  ConfigInv'
<1> USE DEF ConfigInv
<1>1. configReady /\ todo = <<>> /\ UNCHANGED <<configReady, todo, settings, identity, resets, spoiled>>
  BY DEF SaveSystem, LoadSystem, ResetStats, Resting
<1>2. \A w : ~Has(w)
  <2>1. Len(<<>>) = 0
    OBVIOUS
  <2>2. Len(todo) = 0
    BY <1>1, <2>1, Zenon
  <2>3. QED
    BY <2>2 DEF Has
<1>3. \A w : ~Has(w)'
  BY <1>1, <1>2 DEF Has
<1>4. CASE SaveSystem \/ LoadSystem
  BY <1>1, <1>2, <1>3, <1>4
  DEF SaveSystem, LoadSystem, ConfigTypeOK, OneOperation, KeptIsStored, StatsAreRecent
<1>5. CASE ResetStats
  <2>1. system' = system /\ kept' = 0 /\ kept' \in 0..MaxCount
        /\ stats' = [stats EXCEPT !["main"] = Zero(resets)]
    BY <1>5, ConfigAssumption DEF ResetStats
  <2>2. Zero(resets) \in Counted /\ Zero(resets).since = resets
    BY StatsTyped DEF ConfigTypeOK
  <2>3. /\ stats' \in [{"main", "backup", "ram"} -> Counted \cup {Absent}]
        /\ stats'["main"] = Zero(resets) /\ stats'["backup"] = stats["backup"]
        /\ stats'["ram"] = stats["ram"] /\ DOMAIN stats' = {"main", "backup", "ram"}
    BY <2>1, <2>2 DEF ConfigTypeOK
  <2>4. stats["ram"].count \in Nat
    BY StatsTyped, ConfigAssumption
  <2>5. ConfigTypeOK'
    BY <1>1, <2>1, <2>3 DEF ConfigTypeOK
  <2>6. OneOperation'
    BY <1>1, <1>3 DEF OneOperation
  <2>7. KeptIsStored'
    BY <1>1, <1>3, <2>1, <2>3, <2>4 DEF KeptIsStored
  <2>8. StatsAreRecent'
    BY <1>1, <1>3, <2>2, <2>3, StatsTyped DEF StatsAreRecent
  <2>9. QED
    BY <2>5, <2>6, <2>7, <2>8
<1>6. QED
  BY <1>4, <1>5

\* An event handler counts.
LEMMA CountKeeps ==
  ASSUME ConfigInv, Count
  PROVE  ConfigInv'
<1> USE DEF ConfigInv
<1> DEFINE ram == stats["ram"]
<1>1. configReady /\ UNCHANGED <<configReady, todo, settings, system, identity, resets, spoiled, kept>>
  BY DEF Count
<1>2. ram \in Counted /\ ram.count < MaxCount /\ ram.count \in 0..MaxCount
  BY StatsTyped DEF Count
<1>3. /\ stats' = [stats EXCEPT !["ram"] = [ram EXCEPT !.count = ram.count + 1]]
  BY DEF Count
<1>4. [ram EXCEPT !.count = ram.count + 1] \in Counted
      /\ [ram EXCEPT !.count = ram.count + 1].since = ram.since
      /\ [ram EXCEPT !.count = ram.count + 1].count = ram.count + 1
  BY <1>2, ConfigAssumption DEF Counted
<1>5. /\ stats' \in [{"main", "backup", "ram"} -> Counted \cup {Absent}]
      /\ stats'["main"] = stats["main"] /\ stats'["backup"] = stats["backup"]
      /\ stats'["ram"].count = ram.count + 1 /\ stats'["ram"].since = ram.since
      /\ stats'["ram"] # Absent /\ DOMAIN stats' = {"main", "backup", "ram"}
  BY <1>3, <1>4, StatsTyped DEF ConfigTypeOK
<1>6. \A w : Has(w)' <=> Has(w)
  BY <1>1 DEF Has
<1>7. ConfigTypeOK'
  BY <1>1, <1>5 DEF ConfigTypeOK
<1>8. OneOperation'
  BY <1>1, <1>6 DEF OneOperation
<1>9. KeptIsStored'
  BY <1>1, <1>2, <1>5, <1>6 DEF KeptIsStored, ConfigTypeOK
<1>10. StatsAreRecent'
  <2>1. stats["ram"].since = resets
    BY <1>2, StatsTyped DEF StatsAreRecent
  <2>2. QED
    BY <1>1, <1>5, <1>6, <2>1, StatsTyped DEF StatsAreRecent
<1>11. QED
  BY <1>7, <1>8, <1>9, <1>10

\* What the next write of an operation leaves of the conditions on the rest.
LEMMA TailKeeps ==
  ASSUME ConfigInv, todo # <<>>, todo' = Tail(todo), UNCHANGED configReady, ~Does("load")
  PROVE  /\ todo' \in Seq(Writes) /\ Len(todo') <= 5
         /\ \A w : Has(w)' => Has(w)
         /\ OneOperation' /\ configReady
<1>1. /\ todo \in Seq(Writes) /\ Len(todo) <= 5
  BY DEF ConfigInv, ConfigTypeOK
<1>2. /\ todo' \in Seq(Writes) /\ Len(todo') <= 5
      /\ \A w : Has(w)' => Has(w)
  BY <1>1, TailHas
<1>3. configReady
  <2>1. SUFFICES ASSUME todo = <<Load>> PROVE FALSE
    BY DEF ConfigInv, OneOperation
  <2>2. Head(todo) = Load
    BY <2>1
  <2>3. QED
    BY <2>2 DEF Does, Load
<1>4. QED
  BY <1>2, <1>3 DEF ConfigInv, OneOperation

\* The writes that only touch the settings.
LEMMA SettingsKeep ==
  ASSUME ConfigInv, WriteFirst \/ WriteLast
  PROVE  ConfigInv'
<1>1. /\ todo # <<>> /\ todo' = Tail(todo) /\ ~Does("load")
      /\ Does("first") \/ Does("last")
      /\ UNCHANGED <<configReady, system, stats, identity, resets, spoiled, kept>>
      /\ settings' \in Settings
  BY DEF WriteFirst, WriteLast, Does, Settings
<1>2. /\ todo' \in Seq(Writes) /\ Len(todo') <= 5 /\ \A w : Has(w)' => Has(w)
      /\ OneOperation' /\ configReady
  BY <1>1, TailKeeps
<1>3. Head(todo) \in {First, Last}
  BY <1>1, NextWrite DEF ConfigInv, ConfigTypeOK
<1>4. \A p \in {"main", "backup"} : Has(Erase(p)) => Has(Erase(p))'
  BY <1>1, <1>3, TailHas, WritesDiffer DEF ConfigInv, ConfigTypeOK, Spaces
<1>5. ConfigTypeOK'
  BY <1>1, <1>2 DEF ConfigInv, ConfigTypeOK
<1>6. KeptIsStored'
  BY <1>1, <1>2 DEF ConfigInv, KeptIsStored
<1>7. StatsAreRecent'
  BY <1>1, <1>2, <1>4 DEF ConfigInv, StatsAreRecent
<1>8. QED
  BY <1>2, <1>5, <1>6, <1>7 DEF ConfigInv

\* An erasure done.
LEMMA EraseKeeps ==
  ASSUME ConfigInv, WriteErase
  PROVE  ConfigInv'
<1>1. /\ todo # <<>> /\ todo' = Tail(todo) /\ Does("erase") /\ ~Does("load")
      /\ UNCHANGED <<configReady, identity, resets, spoiled, kept>>
      /\ settings' \in {settings, "absent"} /\ system' \in {system, "absent"}
      /\ stats' = [p \in DOMAIN stats |-> IF p = Place THEN Absent ELSE stats[p]]
  BY DEF WriteErase, Does
<1>2. /\ todo' \in Seq(Writes) /\ Len(todo') <= 5 /\ \A w : Has(w)' => Has(w)
      /\ OneOperation' /\ configReady
  BY <1>1, TailKeeps
<1>3. Place \in Spaces /\ Head(todo) = Erase(Place) /\ Has(Erase(Place))
  BY <1>1, NextWrite DEF ConfigInv, ConfigTypeOK
<1>4. \A p \in {"main", "backup"} : Has(Erase(p)) /\ p # Place => Has(Erase(p))'
  BY <1>1, <1>3, TailHas, WritesDiffer DEF ConfigInv, ConfigTypeOK, Spaces
<1>5. /\ stats' \in [{"main", "backup", "ram"} -> Counted \cup {Absent}]
      /\ \A p \in {"main", "backup", "ram"} : stats'[p] = IF p = Place THEN Absent ELSE stats[p]
      /\ DOMAIN stats' = {"main", "backup", "ram"} /\ stats'["ram"] = stats["ram"]
  BY <1>1, <1>3, StatsTyped DEF ConfigInv, ConfigTypeOK, Spaces
<1>6. ConfigTypeOK'
  BY <1>1, <1>2, <1>5 DEF ConfigInv, ConfigTypeOK, Settings
<1>7. KeptIsStored'
  <2>1. Place = "main" => kept = 0
    BY <1>3 DEF ConfigInv, KeptIsStored
  <2>2. kept \in Nat
    BY ConfigAssumption DEF ConfigInv, ConfigTypeOK
  <2>3. QED
    BY <1>1, <1>2, <1>5, <2>1, <2>2 DEF ConfigInv, KeptIsStored
<1>8. StatsAreRecent'
  BY <1>1, <1>2, <1>4, <1>5, StatsTyped DEF ConfigInv, StatsAreRecent
<1>9. QED
  BY <1>2, <1>6, <1>7, <1>8 DEF ConfigInv

\* A save done.
LEMMA SaveKeeps ==
  ASSUME ConfigInv, WriteSave
  PROVE  ConfigInv'
<1>1. /\ todo # <<>> /\ todo' = Tail(todo) /\ Does("save") /\ ~Does("load")
      /\ UNCHANGED <<configReady, settings, identity, resets, spoiled>>
      /\ system' \in {system, "default"}
      /\ Place # "system" => stats' = [stats EXCEPT ![Place] = stats["ram"]]
      /\ Place = "system" => stats' = stats
      /\ kept' = IF Place = "main" THEN stats["ram"].count ELSE kept
  BY DEF WriteSave, Does
<1>2. /\ todo' \in Seq(Writes) /\ Len(todo') <= 5 /\ \A w : Has(w)' => Has(w)
      /\ OneOperation' /\ configReady
  BY <1>1, TailKeeps
<1>3. Place \in Saved /\ Has(Save(Place))
  BY <1>1, NextWrite DEF ConfigInv, ConfigTypeOK
<1>4. ~Has(Load) /\ \A p \in Spaces : ~Has(Erase(p))
  BY <1>3 DEF ConfigInv, OneOperation, Saved, Spaces
<1>5. /\ stats' \in [{"main", "backup", "ram"} -> Counted \cup {Absent}]
      /\ DOMAIN stats' = {"main", "backup", "ram"} /\ stats'["ram"] = stats["ram"]
      /\ \A p \in {"main", "backup"} :
           stats'[p] = IF p = Place THEN stats["ram"] ELSE stats[p]
  BY <1>1, <1>3, StatsTyped DEF ConfigInv, ConfigTypeOK, Saved
<1>6. kept' \in 0..MaxCount
  BY <1>1, StatsTyped DEF ConfigInv, ConfigTypeOK
<1>7. ConfigTypeOK'
  BY <1>1, <1>2, <1>5, <1>6 DEF ConfigInv, ConfigTypeOK
<1>8. KeptIsStored'
  <2>1. stats["ram"].count \in Nat /\ stats["ram"] # Absent
    BY StatsTyped, ConfigAssumption DEF ConfigInv, ConfigTypeOK
  <2>2. ~Has(Erase("main"))'
    BY <1>2, <1>4 DEF Spaces
  <2>3. QED
    BY <1>1, <1>2, <1>5, <2>1, <2>2 DEF ConfigInv, KeptIsStored
<1>9. StatsAreRecent'
  BY <1>1, <1>2, <1>4, <1>5, StatsTyped DEF ConfigInv, StatsAreRecent
<1>10. QED
  BY <1>2, <1>7, <1>8, <1>9 DEF ConfigInv

\* A write failed.
LEMMA FailKeeps ==
  ASSUME ConfigInv, WriteFails
  PROVE  ConfigInv'
<1>1. /\ todo # <<>> /\ ~Does("load")
      /\ UNCHANGED <<configReady, settings, system, stats, identity, resets, kept>>
      /\ spoiled' \in BOOLEAN /\ (Does("erase") => spoiled') /\ (spoiled => spoiled')
  BY DEF WriteFails, Does, ConfigInv, ConfigTypeOK
<1>2. configReady
  <2>1. Head(<<Load>>) = Load
    OBVIOUS
  <2>2. todo # <<Load>>
    BY <1>1, <2>1 DEF Does, Load
  <2>3. QED
    BY <1>1, <2>2 DEF ConfigInv, OneOperation
<1>3. CASE todo' = <<>>
  <2>1. \A w : ~Has(w)'
    BY <1>3, EmptyHas
  <2>2. todo' \in Seq(Writes) /\ Len(todo') <= 5
    BY <1>3
  <2>3. ConfigTypeOK'
    BY <1>1, <2>2 DEF ConfigInv, ConfigTypeOK
  <2>4. QED
    BY <1>1, <1>2, <2>1, <2>3 DEF ConfigInv, OneOperation, KeptIsStored, StatsAreRecent
<1>4. CASE todo' = Tail(todo)
  <2>1. /\ todo' \in Seq(Writes) /\ Len(todo') <= 5 /\ \A w : Has(w)' => Has(w)
        /\ OneOperation'
    BY <1>1, <1>4, TailKeeps
  <2>2. ASSUME ~Does("erase")
        PROVE  \A p \in {"main", "backup"} : Has(Erase(p)) => Has(Erase(p))'
    <3>1. \A p \in {"main", "backup"} : Head(todo) # Erase(p)
      <4>1. \A p \in {"main", "backup"} : Erase(p)[1] = "erase"
        BY DEF Erase
      <4>2. QED
        BY <1>1, <2>2, <4>1 DEF Does
    <3>2. QED
      BY <1>1, <1>4, <3>1, TailHas DEF ConfigInv, ConfigTypeOK
  <2>3. ConfigTypeOK'
    BY <1>1, <2>1 DEF ConfigInv, ConfigTypeOK
  <2>4. KeptIsStored'
    BY <1>1, <2>1 DEF ConfigInv, KeptIsStored
  <2>5. StatsAreRecent'
    BY <1>1, <1>2, <2>1, <2>2 DEF ConfigInv, StatsAreRecent
  <2>6. QED
    BY <2>1, <2>3, <2>4, <2>5 DEF ConfigInv
<1>5. QED
  BY <1>3, <1>4 DEF WriteFails

\* The handles are closed.
LEMMA CloseKeeps ==
  ASSUME ConfigInv, CloseHandles
  PROVE  ConfigInv'
<1>1. /\ todo' = <<>> /\ configReady' = FALSE
      /\ UNCHANGED <<settings, system, stats, identity, resets, spoiled, kept>>
  BY DEF CloseHandles
<1>2. \A w : ~Has(w)'
  BY <1>1, EmptyHas
<1>3. todo' \in Seq(Writes) /\ Len(todo') <= 5
  BY <1>1
<1>4. ConfigTypeOK'
  BY <1>1, <1>3 DEF ConfigInv, ConfigTypeOK
<1>5. QED
  BY <1>1, <1>2, <1>4 DEF ConfigInv, OneOperation, KeptIsStored, StatsAreRecent

\* What the loading makes of the statistics.
LEMMA LoadedAre ==
  ASSUME ConfigTypeOK, NEW r \in 0..MaxResets, LoadedStats(r)
  PROVE  /\ stats' \in [{"main", "backup", "ram"} -> Counted \cup {Absent}]
         /\ DOMAIN stats' = {"main", "backup", "ram"} /\ stats'["ram"] # Absent
         /\ stats'["backup"] = stats["backup"]
         /\ stats["main"] # Absent => stats'["main"] = stats["main"] /\ stats'["ram"] = stats["main"]
         /\ stats["main"] = Absent => stats'["main"] \in {Absent, stats["backup"]}
         /\ \A s \in {stats'["main"], stats'["ram"]} :
              s \in {Absent, stats["main"], stats["backup"], Zero(r)}
         /\ stats'["ram"] \in {stats["main"], stats["backup"], Zero(r)}
<1>1. Zero(r) \in Counted /\ Absent \notin Counted
  BY StatsTyped
<1>2. stats \in [{"main", "backup", "ram"} -> Counted \cup {Absent}]
  BY DEF ConfigTypeOK
<1>3. CASE stats["main"] # Absent /\ stats' = [stats EXCEPT !["ram"] = stats["main"]]
  BY <1>1, <1>2, <1>3
<1>4. CASE /\ stats["main"] = Absent /\ stats["backup"] # Absent
           /\ stats' = [stats EXCEPT !["main"] = stats["backup"], !["ram"] = stats["backup"]]
  BY <1>1, <1>2, <1>4
<1>5. CASE stats["main"] = Absent /\ stats' = [stats EXCEPT !["ram"] = Zero(r)]
  <2>1. stats'["ram"] = Zero(r) /\ stats'["main"] = stats["main"] /\ stats'["backup"] = stats["backup"]
        /\ DOMAIN stats' = {"main", "backup", "ram"}
        /\ stats' \in [{"main", "backup", "ram"} -> Counted \cup {Absent}]
    BY <1>1, <1>2, <1>5
  <2>2. stats'["ram"] # Absent
    BY <1>1, <2>1
  <2>3. QED
    BY <1>5, <2>1, <2>2
<1>6. QED
  BY <1>3, <1>4, <1>5 DEF LoadedStats

\* The loading at the end of the start or of a reset.
LEMMA LoadKeeps ==
  ASSUME ConfigInv, LoadIsLast, LoadDefaults
  PROVE  ConfigInv'
<1>1. /\ Does("load") /\ todo # <<>> /\ todo' = <<>> /\ configReady' = TRUE
      /\ UNCHANGED <<settings, system, spoiled, kept>>
      /\ identity' \in {"default", "whole", "mixed"}
      /\ resets' = IF configReady /\ ~spoiled THEN resets + 1 ELSE resets
      /\ LoadedStats(resets')
  BY DEF LoadDefaults, LoadedIdentity, Does
<1>2. \A w : ~Has(w)'
  BY <1>1, EmptyHas
<1>3. Has(Load) /\ \A p \in Spaces : ~Has(Erase(p))
  <2>1. todo \in Seq(Writes) /\ Head(todo) = Load /\ Has(Load)
    BY <1>1, NextWrite DEF ConfigInv, ConfigTypeOK
  <2>2. todo[1] = Load /\ 1 \in 1..Len(todo)
    BY <1>1, <2>1
  <2>3. Len(todo) = 1
    BY <2>2 DEF LoadIsLast
  <2>4. QED
    BY <2>1, <2>2, <2>3, WritesDiffer DEF Has
<1>4. resets' \in 0..MaxResets
  BY <1>1, <1>3, StatsTyped, ConfigAssumption DEF ConfigInv, StatsAreRecent, ConfigTypeOK
<1>5. /\ stats' \in [{"main", "backup", "ram"} -> Counted \cup {Absent}]
      /\ DOMAIN stats' = {"main", "backup", "ram"} /\ stats'["ram"] # Absent
      /\ stats'["backup"] = stats["backup"]
      /\ stats["main"] # Absent => stats'["main"] = stats["main"] /\ stats'["ram"] = stats["main"]
      /\ stats["main"] = Absent => stats'["main"] \in {Absent, stats["backup"]}
      /\ \A s \in {stats'["main"], stats'["ram"]} :
           s \in {Absent, stats["main"], stats["backup"], Zero(resets')}
      /\ stats'["ram"] \in {stats["main"], stats["backup"], Zero(resets')}
  BY <1>1, <1>4, LoadedAre DEF ConfigInv
<1>6. ConfigTypeOK'
  <2>1. todo' \in Seq(Writes) /\ Len(todo') <= 5
    BY <1>1
  <2>2. QED
    BY <1>1, <1>4, <1>5, <2>1 DEF ConfigInv, ConfigTypeOK
<1>7. OneOperation'
  BY <1>1, <1>2 DEF OneOperation
<1>8. KeptIsStored'
  <2>1. stats'["ram"] \in Counted /\ stats'["ram"].count \in Nat
    <3>1. stats'["ram"] \in Counted
      BY <1>5
    <3>2. QED
      BY <3>1, ConfigAssumption DEF Counted
  <2>2. kept \in Nat
    BY ConfigAssumption DEF ConfigInv, ConfigTypeOK
  <2>3. QED
    BY <1>1, <1>2, <1>5, <2>1, <2>2 DEF ConfigInv, KeptIsStored
<1>9. StatsAreRecent'
  <2>1. Zero(resets').since = resets'
    BY <1>4, StatsTyped DEF ConfigInv
  <2>2. CASE configReady /\ ~spoiled
    <3>1. stats["main"] = Absent /\ stats["backup"] = Absent
      BY <1>3, <2>2 DEF ConfigInv, StatsAreRecent, Spaces
    <3>2. QED
      BY <1>2, <1>5, <2>1, <3>1 DEF StatsAreRecent
  <2>3. CASE ~(configReady /\ ~spoiled)
    <3>1. resets' = resets
      BY <1>1, <2>3
    <3>2. \A p \in {"main", "backup"} : stats[p] = Absent \/ stats[p].since = resets
      BY StatsTyped DEF ConfigInv, StatsAreRecent
    <3>3. QED
      BY <1>2, <1>5, <2>1, <3>1, <3>2 DEF StatsAreRecent
  <2>4. QED
    BY <2>2, <2>3
<1>10. QED
  BY <1>6, <1>7, <1>8, <1>9 DEF ConfigInv

\* A new start, with the flash as it was or erased.
LEMMA RebootKeeps ==
  ASSUME ConfigInv, ConfigReboot \/ ConfigErased
  PROVE  ConfigInv'
<1> USE ConfigAssumption
<1>1. /\ configReady' = FALSE /\ todo' = <<Load>> /\ identity' = "default"
      /\ resets' = resets /\ spoiled' = spoiled
      /\ settings' \in {settings, "absent"} /\ system' \in {system, "absent"}
  BY DEF ConfigReboot, ConfigErased
<1>2. \A w : Has(w)' => w = Load
  BY <1>1 DEF Has
<1>3. \A p \in Spaces : ~Has(Erase(p))'
  BY <1>2, WritesDiffer
<1>4. \A p \in Saved : ~Has(Save(p))'
  BY <1>2, WritesDiffer
<1>5. Zero(resets) \in Counted /\ Zero(resets) # Absent /\ Zero(resets).since = resets
  BY StatsTyped DEF ConfigInv, ConfigTypeOK
<1>6. /\ stats' \in [{"main", "backup", "ram"} -> Counted \cup {Absent}]
      /\ DOMAIN stats' = {"main", "backup", "ram"} /\ stats'["ram"] = Zero(resets)
      /\ \/ stats'["main"] = stats["main"] /\ stats'["backup"] = stats["backup"] /\ kept' = kept
         \/ stats'["main"] = Absent /\ stats'["backup"] = Absent /\ kept' = 0
  <2>1. CASE ConfigReboot
    BY <1>5, <2>1 DEF ConfigReboot, ConfigInv, ConfigTypeOK
  <2>2. CASE ConfigErased
    BY <1>5, <2>2 DEF ConfigErased, ConfigInv, ConfigTypeOK
  <2>3. QED
    BY <2>1, <2>2
<1>7. ConfigTypeOK'
  <2>1. todo' \in Seq(Writes) /\ Len(todo') <= 5
    BY <1>1 DEF Writes
  <2>2. kept' \in 0..MaxCount
    BY <1>6 DEF ConfigInv, ConfigTypeOK
  <2>3. QED
    BY <1>1, <1>5, <1>6, <2>1, <2>2 DEF ConfigInv, ConfigTypeOK, Settings
<1>8. OneOperation'
  BY <1>1, <1>4 DEF OneOperation, Saved
<1>9. KeptIsStored'
  BY <1>1, <1>3, <1>6 DEF ConfigInv, KeptIsStored, Spaces
<1>10. StatsAreRecent'
  BY <1>1, <1>5, <1>6, StatsTyped DEF ConfigInv, StatsAreRecent
<1>11. QED
  BY <1>7, <1>8, <1>9, <1>10 DEF ConfigInv

\* Nothing happens.
LEMMA ConfigStays ==
  ASSUME ConfigInv, UNCHANGED configVars
  PROVE  ConfigInv'
  BY DEF ConfigInv, configVars, ConfigTypeOK, OneOperation, KeptIsStored, StatsAreRecent, Has

\* What the configuration manager does.
ConfigStep ==
  \/ SaveDevice \/ Cleanup \/ FactoryReset \/ SaveSystem \/ LoadSystem \/ ResetStats \/ Count
  \/ WriteErase \/ WriteFirst \/ WriteLast \/ WriteSave \/ WriteFails \/ CloseHandles
  \/ LoadDefaults \/ ConfigReboot \/ ConfigErased

\* The loading stays the last write.
LEMMA LoadStaysLast ==
  ASSUME ConfigTypeOK, LoadIsLast, ConfigStep \/ UNCHANGED configVars
  PROVE  LoadIsLast'
<1>1. CASE todo' = todo
  BY <1>1 DEF LoadIsLast
<1>2. CASE todo' = Tail(todo) /\ todo # <<>>
  <2>1. todo \in Seq(Writes) /\ Len(todo) \in Nat /\ Len(todo) > 0
    BY <1>2 DEF ConfigTypeOK
  <2>2. Len(todo') = Len(todo) - 1 /\ \A i \in 1..Len(todo') : todo'[i] = todo[i + 1]
    BY <1>2, <2>1
  <2>3. \A i \in 1..Len(todo') : i + 1 \in 1..Len(todo)
    BY <2>1, <2>2
  <2>4. QED
    BY <2>1, <2>2, <2>3 DEF LoadIsLast
<1>3. CASE todo' = <<>>
  <2>1. Len(<<>>) = 0
    OBVIOUS
  <2>2. Len(todo') = 0
    BY <1>3, <2>1, Zenon
  <2>3. QED
    BY <2>2 DEF LoadIsLast
<1>4. CASE todo' = <<Load>>
  BY <1>4 DEF LoadIsLast
<1>5. CASE todo' = <<First, Last>>
  BY <1>5, WritesDiffer DEF LoadIsLast
<1>6. CASE todo' = <<Save("system"), Save("main"), Save("backup"), Close>>
  BY <1>6, WritesDiffer DEF LoadIsLast, Saved
<1>7. CASE todo' = <<Erase("device"), Erase("system"), Erase("main"), Erase("backup"), Load>>
  BY <1>7, WritesDiffer DEF LoadIsLast, Spaces
<1>8. QED
  BY <1>1, <1>2, <1>3, <1>4, <1>5, <1>6, <1>7
  DEF ConfigStep, configVars, SaveDevice, Cleanup, FactoryReset, Starts, SaveSystem, LoadSystem,
      ResetStats, Count, WriteErase, WriteFirst, WriteLast, WriteSave, WriteFails, CloseHandles,
      LoadDefaults, ConfigReboot, ConfigErased, Does

LEMMA ConfigKeeps ==
  ASSUME ConfigInv, LoadIsLast, ConfigStep \/ UNCHANGED configVars
  PROVE  ConfigInv' /\ LoadIsLast'
<1>1. LoadIsLast'
  BY LoadStaysLast DEF ConfigInv
<1>2. ConfigInv'
  BY BeginKeeps, RestingKeeps, CountKeeps, SettingsKeep, EraseKeeps, SaveKeeps, FailKeeps,
     CloseKeeps, LoadKeeps, RebootKeeps, ConfigStays DEF ConfigStep
<1>3. QED
  BY <1>1, <1>2

-----------------------------------------------------------------------------
(* The update manager.                                                     *)

\* What the update manager does.
OtaStep ==
  \/ OtaStart \/ OtaDeinit
  \/ Release \/ SetAuto \/ CheckUpdate \/ CheckFails \/ Checked
  \/ Begin \/ Downloaded \/ AttemptFails \/ Install \/ Note

\* The versions are numbers.
LEMMA VersionsTyped ==
  ASSUME OtaTypeOK
  PROVE  /\ offered \in Nat /\ installed \in Nat /\ noted \in Nat /\ current \in Nat
         /\ found \in Nat /\ tries \in Nat
  BY OtaAssumption DEF OtaTypeOK

LEMMA OtaKeeps ==
  ASSUME OtaInv, OtaStep
  PROVE  OtaInv'
<1> USE OtaAssumption, VersionsTyped DEF OtaInv, OtaTypeOK, UpdateLeadsUp
<1>1. CASE Release
  BY <1>1 DEF Release
<1>2. CASE OtaStart \/ OtaDeinit \/ SetAuto
  <2>1. /\ UNCHANGED <<offered, installed, noted, job, tries, found>>
        /\ otaReady' \in BOOLEAN /\ auto_update' \in BOOLEAN
    BY <1>2 DEF OtaStart, OtaDeinit, SetAuto
  <2>2. otaState' \in {otaState, "IDLE"}
    BY <1>2 DEF OtaStart, OtaDeinit, SetAuto
  <2>3. current' \in 0..MaxVersion
    BY <1>2 DEF OtaStart, OtaDeinit, SetAuto
  <2>4. QED
    BY <2>1, <2>2, <2>3
<1>3. CASE CheckUpdate
  BY <1>3 DEF CheckUpdate, Jobs
<1>4. CASE CheckFails
  BY <1>4 DEF CheckFails, JobEnds, Jobs
<1>5. CASE Checked
  BY <1>5 DEF Checked, JobEnds, Jobs
<1>6. CASE Begin \/ Downloaded
  BY <1>6 DEF Begin, Downloaded, Jobs
<1>7. CASE AttemptFails
  BY <1>7 DEF AttemptFails, JobEnds, Jobs
<1>8. CASE Install
  BY <1>8 DEF Install, Jobs
<1>9. CASE Note
  BY <1>9 DEF Note, Jobs
<1>10. QED
  BY <1>1, <1>2, <1>3, <1>4, <1>5, <1>6, <1>7, <1>8, <1>9 DEF OtaStep

LEMMA OtaRebootKeeps ==
  ASSUME OtaInv, OtaReboot, noted' \in {noted, 0}
  PROVE  OtaInv'
<1> USE OtaAssumption, VersionsTyped DEF OtaInv, OtaTypeOK
<1>1. /\ otaReady' = FALSE /\ otaState' = "IDLE" /\ current' = 0 /\ auto_update' = TRUE
      /\ job' = "none" /\ tries' = 0 /\ found' = 0 /\ UNCHANGED <<offered, installed>>
  BY DEF OtaReboot, JobEnds
<1>2. noted' \in 0..MaxVersion /\ noted' <= installed
  BY DEF UpdateLeadsUp
<1>3. UpdateLeadsUp'
  BY <1>1, <1>2 DEF UpdateLeadsUp
<1>4. tries' \in 0..OtaRetries /\ current' \in 0..MaxVersion /\ found' \in 0..MaxVersion
  BY <1>1
<1>5. QED
  BY <1>1, <1>2, <1>3, <1>4 DEF Jobs

LEMMA OtaStays ==
  ASSUME OtaInv, UNCHANGED otaVars
  PROVE  OtaInv'
  BY DEF OtaInv, OtaTypeOK, UpdateLeadsUp, otaVars

-----------------------------------------------------------------------------
(* The two together.                                                       *)

LEMMA PersistenceStarts ==
  ASSUME Init
  PROVE  IndInv
<1> USE ConfigAssumption, OtaAssumption DEF Init, ConfigInit, OtaInit
<1>1. /\ configReady = FALSE /\ todo = <<Load>> /\ resets = 0 /\ kept = 0
      /\ stats \in [{"main", "backup", "ram"} -> Counted \cup {Absent}]
      /\ DOMAIN stats = {"main", "backup", "ram"}
      /\ stats["ram"] = Zero(0) /\ stats["main"] = Absent /\ stats["backup"] = Absent
  BY DEF Counted, Zero
<1>2. Zero(0).since = 0 /\ Zero(0) # Absent
  BY DEF Zero, Absent
<1>3. \A w : Has(w) => w = Load
  BY <1>1 DEF Has
<1>4. todo \in Seq(Writes) /\ Len(todo) <= 5
  BY <1>1 DEF Writes
<1>5. ConfigTypeOK
  <2>1. resets \in 0..MaxResets /\ kept \in 0..MaxCount
    BY <1>1
  <2>2. QED
    BY <1>1, <1>2, <1>4, <2>1 DEF ConfigTypeOK, Settings
<1>6. OneOperation
  BY <1>1, <1>3, WritesDiffer DEF OneOperation, Saved
<1>7. KeptIsStored
  BY <1>1, <1>3, WritesDiffer DEF KeptIsStored, Spaces
<1>8. StatsAreRecent
  BY <1>1, <1>2 DEF StatsAreRecent
<1>9. LoadIsLast
  BY <1>1 DEF LoadIsLast
<1>10. OtaInv
  <2>1. /\ offered \in 1..MaxVersion /\ installed \in 1..MaxVersion /\ noted \in 0..MaxVersion
        /\ current \in 0..MaxVersion /\ found \in 0..MaxVersion /\ tries \in 0..OtaRetries
    OBVIOUS
  <2>2. UpdateLeadsUp
    BY DEF UpdateLeadsUp
  <2>3. QED
    BY <2>1, <2>2 DEF OtaInv, OtaTypeOK, Jobs
<1>11. QED
  BY <1>5, <1>6, <1>7, <1>8, <1>9, <1>10 DEF IndInv, ConfigInv

LEMMA Keeps ==
  ASSUME IndInv, [Next]_vars
  PROVE  IndInv'
<1>1. CASE UNCHANGED vars
  BY <1>1, ConfigKeeps, OtaStays DEF vars, configVars, IndInv
<1>2. CASE StartConfig \/ ShutdownConfig \/ Configure \/ Writing
  <2>1. ConfigStep /\ UNCHANGED <<otaVars, phase>>
    BY <1>2 DEF StartConfig, ShutdownConfig, Configure, Writing, ConfigStep
  <2>2. QED
    BY <2>1, ConfigKeeps, OtaStays DEF IndInv
<1>3. CASE StartOta \/ ShutdownOta \/ Updating
  <2>1. OtaStep /\ UNCHANGED configVars /\ phase' \in {"starting", "up", "closing"}
    BY <1>3 DEF StartOta, ShutdownOta, Updating, OtaStep, IndInv
  <2>2. QED
    BY <2>1, ConfigKeeps, OtaKeeps DEF IndInv
<1>4. CASE Restart \/ RestartErased
  <2>1. ConfigStep /\ OtaReboot /\ noted' \in {noted, 0} /\ phase' = "starting"
    BY <1>4 DEF Restart, RestartErased, ConfigStep
  <2>2. QED
    BY <2>1, ConfigKeeps, OtaRebootKeeps DEF IndInv
<1>5. QED
  BY <1>1, <1>2, <1>3, <1>4 DEF Next

\* The invariant holds from the start on.
THEOREM PersistenceInvariance == Spec => []IndInv
<1>1. Init => IndInv
  BY PersistenceStarts
<1>2. IndInv /\ [Next]_vars => IndInv'
  BY Keeps
<1>3. QED
  BY <1>1, <1>2, PTL DEF Spec

\* Every variable keeps its type.
THEOREM PersistenceTypeCorrect == Spec => []TypeOK
<1>1. IndInv => TypeOK
  BY DEF IndInv, ConfigInv, OtaInv, TypeOK
<1>2. QED
  BY <1>1, PersistenceInvariance, PTL

\* The version noted in flash is never ahead of the firmware that boots: the power may
\* fail between esp_https_ota_finish and the write of the version.
THEOREM RecordStaysBehind == Spec => []RecordBehindInstalled
<1>1. IndInv => RecordBehindInstalled
  BY DEF IndInv, OtaInv, UpdateLeadsUp, RecordBehindInstalled
<1>2. QED
  BY <1>1, PersistenceInvariance, PTL

\* After config_manager_factory_reset has erased everything, no statistics counted before
\* come back from the main copy, the backup or RAM.
THEOREM ResetReallyForgets == Spec => []ResetForgets
<1>1. IndInv => ResetForgets
  BY DEF IndInv, ConfigInv, StatsAreRecent, ResetForgets
<1>2. QED
  BY <1>1, PersistenceInvariance, PTL

\* A restart at any moment loses at most what was counted after the last save.
THEOREM StatsAlwaysSurvive == Spec => []StatsSurvive
<1>1. IndInv => StatsSurvive
  BY DEF IndInv, ConfigInv, KeptIsStored, StatsSurvive
<1>2. QED
  BY <1>1, PersistenceInvariance, PTL

-----------------------------------------------------------------------------
(* The promise of FirmwareUpdate.                                          *)

\* A step of the update manager moves the versions as FirmwareUpdate does, or not at all.
LEMMA OtaStepPromised ==
  ASSUME OtaInv, OtaStep
  PROVE  [Update!UpdateNext]_(Update!updateVars)
<1> USE DEF Update!UpdateNext, Update!updateVars
<1>1. CASE Release
  BY <1>1 DEF Release, Update!Offer
<1>2. CASE Install
  <2>1. installed <= found /\ found <= offered
    BY <1>2 DEF Install, OtaInv, UpdateLeadsUp
  <2>2. installed \in Nat /\ found \in Nat /\ offered \in Nat
    BY VersionsTyped DEF OtaInv
  <2>3. installed' \in installed..offered /\ UNCHANGED <<offered, noted>>
    BY <1>2, <2>1, <2>2 DEF Install
  <2>4. QED
    BY <2>3 DEF Update!Replace
<1>3. CASE Note
  <2>1. found = installed
    BY <1>3 DEF Note, OtaInv, UpdateLeadsUp
  <2>2. noted' \in {noted, installed} /\ UNCHANGED <<offered, installed>>
    BY <1>3, <2>1 DEF Note
  <2>3. QED
    BY <2>2 DEF Update!Record
<1>4. CASE \/ OtaStart \/ OtaDeinit \/ SetAuto \/ CheckUpdate \/ CheckFails \/ Checked
           \/ Begin \/ Downloaded \/ AttemptFails
  BY <1>4 DEF OtaStart, OtaDeinit, SetAuto, CheckUpdate, CheckFails, Checked, Begin, Downloaded,
              AttemptFails
<1>5. QED
  BY <1>1, <1>2, <1>3, <1>4 DEF OtaStep

\* So does every step, the loss of power and the erased partition included.
LEMMA UpdatePromised ==
  ASSUME IndInv, [Next]_vars
  PROVE  [Update!UpdateNext]_(Update!updateVars)
<1> USE DEF Update!UpdateNext, Update!updateVars
<1>1. CASE UNCHANGED vars
  BY <1>1 DEF vars, otaVars
<1>2. CASE StartConfig \/ ShutdownConfig \/ Configure \/ Writing
  BY <1>2 DEF StartConfig, ShutdownConfig, Configure, Writing, otaVars
<1>3. CASE StartOta \/ ShutdownOta \/ Updating
  <2>1. OtaStep
    BY <1>3 DEF StartOta, ShutdownOta, Updating, OtaStep
  <2>2. QED
    BY <2>1, OtaStepPromised DEF IndInv
<1>4. CASE Restart \/ RestartErased
  BY <1>4 DEF Restart, RestartErased, OtaReboot, Update!Forget
<1>5. QED
  BY <1>1, <1>2, <1>3, <1>4 DEF Next

\* The update manager implements FirmwareUpdate, for any number of attempts and versions.
THEOREM UpdateRefinement == Spec => UpdateImplemented
<1>1. Init => Update!UpdateInit
  BY DEF Init, OtaInit, Update!UpdateInit
<1>2. IndInv /\ [Next]_vars => [Update!UpdateNext]_(Update!updateVars)
  BY UpdatePromised
<1>3. QED
  BY <1>1, <1>2, PersistenceInvariance, PTL DEF Spec, UpdateImplemented, Update!UpdateSpec
=============================================================================
