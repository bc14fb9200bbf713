------------------------- MODULE InstallationProofs --------------------------
(***************************************************************************)
(* What the installer promises, for any set of definitions, any number of  *)
(* runs, failures and kills, and any edits by the user.                    *)
(***************************************************************************)
EXTENDS Installation, WellFoundedInduction, FiniteSetTheorems, SequenceTheorems, TLAPS

-----------------------------------------------------------------------------
(* The elements of a sequence at some places: the k-th is the one whose     *)
(* place has k places up to it.                                             *)

Rank(places, i) == Cardinality({j \in places : j <= i})

\* A non-empty set of natural numbers has a least element.
LEMMA LeastNumber ==
  ASSUME NEW S \in SUBSET Nat, S # {}
  PROVE  \E z \in S : \A y \in S : z <= y
<1>1. PICK z \in S : \A y \in S : ~ (<<y, z>> \in OpToRel(<, Nat))
  <2>1. IsWellFoundedOn(OpToRel(<, Nat), Nat)
    BY NatLessThanWellFounded
  <2>. HIDE DEF OpToRel
  <2>2. QED
    BY <2>1, WFMin
<1>2. \A y \in S : ~ (y < z)
  BY <1>1 DEF OpToRel
<1>3. QED
  BY <1>2

LEMMA RankFinite ==
  ASSUME NEW m \in Nat, NEW places \in SUBSET (1..m)
  PROVE  /\ IsFiniteSet(places) /\ Cardinality(places) \in Nat
         /\ \A i \in Nat : /\ IsFiniteSet({j \in places : j <= i})
                           /\ Rank(places, i) \in Nat /\ Rank(places, i) <= Cardinality(places)
<1>1. IsFiniteSet(1..m)
  <2>1. 1 \in Int /\ m \in Int
    OBVIOUS
  <2>2. QED
    BY <2>1, FS_Interval
<1>2. IsFiniteSet(places)
  BY <1>1, FS_Subset
<1>3. \A i \in Nat : {j \in places : j <= i} \in SUBSET places
  OBVIOUS
<1>4. QED
  BY <1>2, <1>3, FS_Subset, FS_CardinalityType DEF Rank

\* Places differ in their rank, and the rank of a place counts it.
LEMMA RankIncreases ==
  ASSUME NEW m \in Nat, NEW places \in SUBSET (1..m), NEW i \in Nat, NEW k \in places, i < k
  PROVE  Rank(places, i) < Rank(places, k)
<1>. DEFINE A == {j \in places : j <= i}
            B == {j \in places : j <= k}
<1>1. /\ IsFiniteSet(B) /\ Cardinality(A) \in Nat /\ Cardinality(B) \in Nat
  BY RankFinite DEF Rank
<1>2. A \in SUBSET B /\ k \in B /\ k \notin A
  <2>1. k \in Nat /\ \A j \in places : j \in Nat
    OBVIOUS
  <2>2. \A j \in places : j <= i => j <= k
    BY <2>1
  <2>3. k <= k /\ ~(k <= i)
    BY <2>1
  <2>4. QED
    BY <2>2, <2>3
<1>3. Cardinality(A) <= Cardinality(B) /\ (Cardinality(B) = Cardinality(A) => B = A)
  BY <1>1, <1>2, FS_Subset
<1>4. QED
  BY <1>1, <1>2, <1>3 DEF Rank

\* Every number up to the number of places is the rank of one.
LEMMA RankOnto ==
  ASSUME NEW m \in Nat, NEW places \in SUBSET (1..m), NEW n \in 1..Cardinality(places)
  PROVE  \E i \in places : Rank(places, i) = n
<1>. DEFINE Reached == {i \in 0..m : n <= Rank(places, i)}
<1>0. \A j \in places : j \in Nat \ {0} /\ j <= m
  OBVIOUS
<1>1. /\ Cardinality(places) \in Nat /\ n \in Nat \ {0} /\ n <= Cardinality(places)
      /\ \A i \in Nat : Rank(places, i) \in Nat
  <2>1. Cardinality(places) \in Nat /\ \A i \in Nat : Rank(places, i) \in Nat
    BY RankFinite
  <2>2. QED
    BY <2>1
<1>2. m \in Reached
  <2>1. {j \in places : j <= m} = places
    BY <1>0
  <2>2. QED
    BY <1>1, <2>1 DEF Rank
<1>3. PICK i \in Reached : \A y \in Reached : i <= y
  <2>1. Reached \in SUBSET Nat /\ Reached # {}
    BY <1>2
  <2>. HIDE DEF Reached
  <2>2. QED
    BY <2>1, LeastNumber
<1>4. i \in 0..m /\ n <= Rank(places, i)
  OBVIOUS
<1>5. i # 0
  <2>1. {j \in places : j <= 0} = {}
    <3>1. \A j \in places : ~(j <= 0)
      BY <1>0
    <3>2. QED
      BY <3>1
  <2>2. Rank(places, 0) = 0
    BY <2>1, FS_EmptySet DEF Rank
  <2>3. QED
    BY <1>1, <1>4, <2>2
<1>6. i - 1 \in Nat /\ Rank(places, i - 1) < n
  <2>1. i - 1 \in 0..m /\ i - 1 \in Nat
    BY <1>4, <1>5
  <2>2. i - 1 \notin Reached
    BY <1>3, <1>4
  <2>3. QED
    BY <1>1, <2>1, <2>2
<1>7. Rank(places, i) = IF i \in places THEN Rank(places, i - 1) + 1 ELSE Rank(places, i - 1)
  <2>. DEFINE Before == {j \in places : j <= i - 1}
  <2>1. IsFiniteSet(Before)
    BY <1>6, RankFinite
  <2>2. i \in Nat /\ ~(i <= i - 1) /\ \A j \in places : j <= i <=> j <= i - 1 \/ j = i
    BY <1>0, <1>4, <1>6
  <2>3. {j \in places : j <= i} = IF i \in places THEN Before \cup {i} ELSE Before
    BY <2>2
  <2>4. i \notin Before
    BY <2>2
  <2>. HIDE DEF Before
  <2>5. Cardinality(Before \cup {i}) = Cardinality(Before) + 1
    BY <2>1, <2>4, FS_AddElement
  <2>6. QED
    BY <2>3, <2>5 DEF Rank, Before
<1>8. QED
  BY <1>1, <1>4, <1>6, <1>7

\* The chosen elements, no other, each as often as it was chosen.
LEMMA PickedElements ==
  ASSUME NEW S, NEW seq \in Seq(S), NEW places \in SUBSET DOMAIN seq
  PROVE  /\ Cardinality(places) \in Nat
         /\ Picked(seq, places) \in Seq(S) /\ Len(Picked(seq, places)) = Cardinality(places)
         /\ \A n \in 1..Cardinality(places) :
              \E i \in places : Rank(places, i) = n /\ Picked(seq, places)[n] = seq[i]
         /\ \A i \in places : \E n \in 1..Cardinality(places) : Picked(seq, places)[n] = seq[i]
<1>1. /\ Len(seq) \in Nat /\ DOMAIN seq = 1..Len(seq) /\ places \in SUBSET (1..Len(seq))
  OBVIOUS
<1>2. /\ Cardinality(places) \in Nat
      /\ \A i \in Nat : Rank(places, i) \in Nat /\ Rank(places, i) <= Cardinality(places)
  BY <1>1, RankFinite
<1>. DEFINE place(n) == CHOOSE i \in places : Rank(places, i) = n
<1>3. \A n \in 1..Cardinality(places) : place(n) \in places /\ Rank(places, place(n)) = n
  BY <1>1, RankOnto
<1>4. \A n \in 1..Cardinality(places) : Picked(seq, places)[n] = seq[place(n)]
  BY DEF Picked, Rank
<1>. HIDE DEF place
<1>5. Picked(seq, places) = [n \in 1..Cardinality(places) |-> Picked(seq, places)[n]]
  BY DEF Picked
<1>6. \A n \in 1..Cardinality(places) : Picked(seq, places)[n] \in S
  BY <1>1, <1>3, <1>4
<1>7. Picked(seq, places) \in Seq(S) /\ Len(Picked(seq, places)) = Cardinality(places)
  BY <1>2, <1>5, <1>6, IsASeq, LenProperties
<1>8. \A i, k \in places : Rank(places, i) = Rank(places, k) => i = k
  <2>1. \A i \in places : i \in Nat /\ Rank(places, i) \in Nat
    BY <1>1, <1>2
  <2>2. \A i, k \in places : i < k => Rank(places, i) < Rank(places, k)
    BY <1>1, <2>1, RankIncreases
  <2>3. QED
    BY <2>1, <2>2
<1>9. \A i \in places : Rank(places, i) \in 1..Cardinality(places)
  <2>1. 0 \in Nat /\ \A i \in places : i \in Nat /\ 0 < i
    BY <1>1
  <2>2. \A i \in places : Rank(places, 0) < Rank(places, i)
    BY <1>1, <2>1, RankIncreases
  <2>3. QED
    BY <1>2, <2>1, <2>2
<1>10. \A i \in places : Picked(seq, places)[Rank(places, i)] = seq[i]
  BY <1>3, <1>4, <1>8, <1>9
<1>11. QED
  BY <1>2, <1>3, <1>4, <1>7, <1>9, <1>10

-----------------------------------------------------------------------------
(* merge_claude_settings is idempotent, and leaves one entry of its own.    *)

Commands == {"user", "af", "oldaf"}

\* All the places of a sequence but the last, or the last alone.
LEMMA PickedPrefix ==
  ASSUME NEW S, NEW seq \in Seq(S), NEW x, x \in S
  PROVE  /\ Picked(Append(seq, x), 1..Len(seq)) = seq
         /\ Picked(Append(seq, x), {Len(seq) + 1}) = <<x>>
<1>. DEFINE more == Append(seq, x)
            n == Len(seq)
<1>1. /\ n \in Nat /\ more \in Seq(S) /\ Len(more) = n + 1 /\ more[n + 1] = x
      /\ \A i \in 1..n : more[i] = seq[i]
  BY AppendProperties
<1>2. Cardinality(1..n) = n /\ \A i \in 1..n : Cardinality(1..i) = i
  <2>1. \A i \in Nat : Cardinality(1..i) = i
    <3>1. TAKE i \in Nat
    <3>2. Cardinality(1..i) = IF 1 > i THEN 0 ELSE i - 1 + 1
      BY FS_Interval
    <3>3. QED
      BY <3>2
  <2>2. QED
    BY <1>1, <2>1
<1>3. \A i \in 1..n : Rank(1..n, i) = i
  <2>1. \A i \in 1..n : {j \in 1..n : j <= i} = 1..i
    BY <1>1
  <2>2. QED
    BY <1>2, <2>1 DEF Rank
<1>4. Picked(more, 1..n) = seq
  <2>1. /\ Picked(more, 1..n) \in Seq(S) /\ Len(Picked(more, 1..n)) = n
        /\ \A k \in 1..n : \E i \in 1..n : Rank(1..n, i) = k /\ Picked(more, 1..n)[k] = more[i]
    <3>1. (1..n) \in SUBSET DOMAIN more
      BY <1>1
    <3>. HIDE DEF more, n
    <3>2. QED
      BY <1>1, <1>2, <3>1, PickedElements, ZenonT(30)
  <2>2. \A k \in 1..n : Picked(more, 1..n)[k] = seq[k]
    BY <1>1, <1>3, <2>1
  <2>. HIDE DEF more
  <2>3. QED
    BY <2>1, <2>2, SeqEqual
<1>5. Picked(more, {n + 1}) = <<x>>
  <2>1. Cardinality({n + 1}) = 1
    BY FS_Singleton
  <2>2. {n + 1} \in SUBSET DOMAIN more
    BY <1>1
  <2>3. /\ Picked(more, {n + 1}) \in Seq(S) /\ Len(Picked(more, {n + 1})) = 1
        /\ Picked(more, {n + 1})[1] = more[n + 1]
    <3>. HIDE DEF more, n
    <3>1. /\ Picked(more, {n + 1}) \in Seq(S)
          /\ Len(Picked(more, {n + 1})) = Cardinality({n + 1})
          /\ \A k \in 1..Cardinality({n + 1}) :
               \E i \in {n + 1} : Picked(more, {n + 1})[k] = more[i]
      BY <1>1, <2>2, PickedElements
    <3>2. 1 \in 1..Cardinality({n + 1})
      BY <2>1
    <3>3. Picked(more, {n + 1})[1] = more[n + 1]
      BY <3>1, <3>2
    <3>4. QED
      BY <2>1, <3>1, <3>3
  <2>. HIDE DEF more
  <2>4. QED
    BY <1>1, <2>3
<1>6. QED
  BY <1>4, <1>5

AfEntry == <<"af">>

LEMMA AfEntryTypes == AfEntry \in Seq(Commands) /\ Head(AfEntry) \in ManagedHooks
<1>1. "af" \in Commands /\ "af" \in ManagedHooks
  BY DEF ManagedHooks, Commands
<1>. DEFINE hook == "af"
<1>. HIDE DEF hook
<1>2. <<hook>> \in Seq(Commands) /\ Head(<<hook>>) = hook
  BY <1>1 DEF hook
<1>3. QED
  BY <1>1, <1>2 DEF AfEntry, hook

LEMMA MergedEntries ==
  ASSUME NEW old \in Entries
  PROVE  /\ MergeEntries(old) \in Entries
         /\ MergeEntries(MergeEntries(old)) = MergeEntries(old)
         /\ Picked(MergeEntries(old), ManagedIn(MergeEntries(old))) = <<AfEntry>>
<1>. DEFINE unmanaged == DOMAIN old \ ManagedIn(old)
            kept == Picked(old, unmanaged)
            new == Append(kept, AfEntry)
<1>1. kept \in Seq(Seq(Commands)) /\ \A n \in 1..Len(kept) : Head(kept[n]) \notin ManagedHooks
  <2>1. unmanaged \in SUBSET DOMAIN old
    OBVIOUS
  <2>2. \A i \in unmanaged : Head(old[i]) \notin ManagedHooks
    BY DEF ManagedIn
  <2>. HIDE DEF unmanaged
  <2>3. /\ kept \in Seq(Seq(Commands)) /\ Len(kept) = Cardinality(unmanaged)
        /\ \A n \in 1..Cardinality(unmanaged) : \E i \in unmanaged : kept[n] = old[i]
    BY <2>1, PickedElements DEF Entries, Commands
  <2>4. QED
    BY <2>2, <2>3
<1>2. MergeEntries(old) = new
  BY DEF MergeEntries, AfEntry
<1>. HIDE DEF kept
<1>3. /\ new \in Entries /\ Len(kept) \in Nat
      /\ DOMAIN new = 1..(Len(kept) + 1) /\ new[Len(kept) + 1] = AfEntry
      /\ \A i \in 1..Len(kept) : new[i] = kept[i]
  BY <1>1, AfEntryTypes, AppendProperties DEF Entries, Commands
<1>4. ManagedIn(new) = {Len(kept) + 1}
  <2>1. \A i \in 1..Len(kept) : Head(new[i]) \notin ManagedHooks
    BY <1>1, <1>3
  <2>2. Head(new[Len(kept) + 1]) \in ManagedHooks
    BY <1>3, AfEntryTypes
  <2>3. \A i \in DOMAIN new : i \in 1..Len(kept) \/ i = Len(kept) + 1
    BY <1>3
  <2>4. Len(kept) + 1 \in DOMAIN new
    BY <1>3
  <2>. HIDE DEF new
  <2>5. \A i \in DOMAIN new : Head(new[i]) \in ManagedHooks <=> i = Len(kept) + 1
    BY <2>1, <2>2, <2>3
  <2>6. QED
    BY <2>4, <2>5 DEF ManagedIn
<1>5. DOMAIN new \ ManagedIn(new) = 1..Len(kept)
  BY <1>3, <1>4
<1>6. Picked(new, 1..Len(kept)) = kept /\ Picked(new, {Len(kept) + 1}) = <<AfEntry>>
  BY <1>1, AfEntryTypes, PickedPrefix
<1>7. MergeEntries(new) = new
  BY <1>5, <1>6 DEF MergeEntries, AfEntry
<1>8. QED
  BY <1>2, <1>3, <1>4, <1>6, <1>7

Settings == [edit : Nat, endpoint : Endpoints, entries : Entries]

LEMMA MergedSettings ==
  ASSUME NEW old \in Settings \cup {Nothing}
  PROVE  /\ MergeSettings(old) \in Settings
         /\ MergeSettings(MergeSettings(old)) = MergeSettings(old)
         /\ Picked(MergeSettings(old).entries, ManagedIn(MergeSettings(old).entries))
              = <<AfEntry>>
<1>1. PICK edit \in Nat, entries \in Entries :
        MergeSettings(old) = SettingsFile(edit, "af", MergeEntries(entries))
  <2>1. CASE old = Nothing
    <3>1. SettingsFile(0, "none", <<>>).edit = 0 /\ SettingsFile(0, "none", <<>>).entries = <<>>
      BY DEF SettingsFile
    <3>2. MergeSettings(old) = SettingsFile(0, "af", MergeEntries(<<>>))
      BY <2>1, <3>1 DEF MergeSettings
    <3>3. <<>> \in Entries
      BY DEF Entries, Commands
    <3>4. QED
      BY <3>2, <3>3
  <2>2. CASE old # Nothing
    <3>1. old.edit \in Nat /\ old.entries \in Entries
      BY <2>2 DEF Settings
    <3>2. QED
      BY <2>2, <3>1 DEF MergeSettings
  <2>3. QED
    BY <2>1, <2>2
<1>. DEFINE new == SettingsFile(edit, "af", MergeEntries(entries))
<1>2. new \in Settings /\ new.edit = edit /\ new.entries = MergeEntries(entries)
  <2>1. MergeEntries(entries) \in Entries
    BY MergedEntries
  <2>2. QED
    BY <2>1 DEF SettingsFile, Settings, Endpoints
<1>3. new # Nothing
  BY <1>2, InstAssumption DEF Settings, Contents
<1>4. MergeSettings(new) = SettingsFile(edit, "af", MergeEntries(MergeEntries(entries)))
  BY <1>2, <1>3 DEF MergeSettings
<1>5. QED
  BY <1>1, <1>2, <1>4, MergedEntries

-----------------------------------------------------------------------------
(* Type correctness.  A change the installer planned is one it wants: made  *)
(* again from its own result it would be the same.                          *)

Codexes == [edit : Nat, exporter : Endpoints]
HookScripts == [edit : Nat, script : Scripts]

ContentsFor(file) ==
    CASE file = "codex" -> Codexes
      [] file = "hook" -> HookScripts
      [] file = "settings" -> Settings

WantedContents(file, contents) ==
    CASE file = "codex" -> contents = CodexFile(contents.edit, "af")
      [] file = "hook" -> contents = HookFile(0, "af")
      [] file = "settings" -> MergeSettings(contents) = contents

Changes == {change \in [file : ConfigFiles, contents : Contents] :
              /\ change.contents \in ContentsFor(change.file)
              /\ WantedContents(change.file, change.contents)}

Changing == {"confirm", "backup", "replace", "chmod", "next"}
Serving == {"define", "update", "bootout", "bootstrap", "reload", "kickstart", "reach"}

Runs == [command : {Nothing, "install", "start", "setup", "check"},
         want : Wanted \cup {Nothing}, files : SUBSET ConfigFiles, number : Nat,
         clean : BOOLEAN, changed : BOOLEAN, touched : BOOLEAN]

InstTypeOK ==
    /\ manager \in {"launchd", "systemd"}
    /\ step \in Serving \cup Changing \cup {"idle", "inspect", "done"}
    /\ run \in Runs
    /\ changes \in Seq(Changes) /\ (step \in Changing => changes # <<>>)
    /\ disk \in [ConfigFiles -> Contents \cup {Nothing}]
    /\ \A file \in ConfigFiles : disk[file] \in ContentsFor(file) \cup {Nothing}
    /\ backups \in [ConfigFiles -> SUBSET Contents]
    /\ executable \in BOOLEAN
    /\ lastEdit \in [ConfigFiles -> Nat]

LEMMA ContentsAreContents ==
  /\ Nothing \notin Contents
  /\ \A file \in ConfigFiles :
        /\ ContentsFor(file) \subseteq Contents
        /\ file = "codex" => ContentsFor(file) = Codexes
        /\ file = "hook" => ContentsFor(file) = HookScripts
        /\ file = "settings" => ContentsFor(file) = Settings
<1>1. Nothing \notin Contents
  BY InstAssumption
<1>2. /\ Codexes \subseteq Contents /\ HookScripts \subseteq Contents
      /\ Settings \subseteq Contents
  BY DEF Contents, Codexes, HookScripts, Settings
<1>3. ASSUME NEW file \in ConfigFiles
      PROVE  /\ file = "codex" => ContentsFor(file) = Codexes
             /\ file = "hook" => ContentsFor(file) = HookScripts
             /\ file = "settings" => ContentsFor(file) = Settings
  BY DEF ContentsFor
<1>4. QED
  BY <1>1, <1>2, <1>3 DEF ConfigFiles

\* What setup wants is a change it can make.
LEMMA DesiredIsWanted ==
  ASSUME InstTypeOK, NEW file \in ConfigFiles
  PROVE  [file |-> file, contents |-> DesiredContents(file)] \in Changes
<1>. SUFFICES /\ DesiredContents(file) \in ContentsFor(file)
              /\ WantedContents(file, DesiredContents(file))
  BY ContentsAreContents DEF Changes
<1>1. /\ disk["codex"] \in Codexes \cup {Nothing}
      /\ disk["settings"] \in Settings \cup {Nothing}
  BY ContentsAreContents DEF InstTypeOK, ConfigFiles
<1>2. CASE file = "codex"
  <2>1. PICK edit \in Nat : DesiredContents(file) = CodexFile(edit, "af")
    BY <1>1, <1>2 DEF DesiredContents, Codexes
  <2>2. CodexFile(edit, "af") \in Codexes /\ CodexFile(edit, "af").edit = edit
    BY DEF CodexFile, Codexes, Endpoints
  <2>3. DesiredContents(file) = CodexFile(DesiredContents(file).edit, "af")
    BY <2>1, <2>2
  <2>4. QED
    BY <1>2, <2>1, <2>2, <2>3, ContentsAreContents DEF WantedContents
<1>3. CASE file = "hook"
  <2>1. HookFile(0, "af") \in HookScripts
    BY DEF HookFile, HookScripts, Scripts
  <2>2. QED
    BY <1>3, <2>1, ContentsAreContents DEF WantedContents, DesiredContents
<1>4. CASE file = "settings"
  BY <1>1, <1>4, MergedSettings, ContentsAreContents DEF WantedContents, DesiredContents
<1>5. QED
  BY <1>2, <1>3, <1>4 DEF ConfigFiles

\* A run plans a change for every file it looks at that is not what it wants.
LEMMA PlansCover ==
  ASSUME InstTypeOK
  PROVE  /\ Plans \in Seq(Changes)
         /\ \A file \in run.files :
              UpToDate(file) \/ \E i \in DOMAIN Plans : Plans[i].file = file
<1>. DEFINE places == {i \in DOMAIN SetupOrder : /\ SetupOrder[i] \in run.files
                                                /\ ~UpToDate(SetupOrder[i])}
            stale == Picked(SetupOrder, places)
<1>1. /\ SetupOrder \in Seq(ConfigFiles) /\ DOMAIN SetupOrder = 1..3
      /\ \A file \in ConfigFiles : \E i \in 1..3 : SetupOrder[i] = file
  <2>1. SetupOrder \in Seq(ConfigFiles) /\ Len(SetupOrder) = 3
    BY DEF SetupOrder, ConfigFiles
  <2>2. SetupOrder[1] = "codex" /\ SetupOrder[2] = "hook" /\ SetupOrder[3] = "settings"
    BY DEF SetupOrder
  <2>3. QED
    BY <2>1, <2>2 DEF ConfigFiles
<1>2. places \in SUBSET DOMAIN SetupOrder
  OBVIOUS
<1>3. \A file \in run.files : ~UpToDate(file) => \E i \in places : SetupOrder[i] = file
  <2>1. run.files \subseteq ConfigFiles
    BY DEF InstTypeOK, Runs
  <2>2. ASSUME NEW file \in run.files, ~UpToDate(file)
        PROVE  \E i \in places : SetupOrder[i] = file
    <3>1. PICK i \in 1..3 : SetupOrder[i] = file
      BY <1>1, <2>1
    <3>2. i \in places
      BY <1>1, <2>2, <3>1
    <3>3. QED
      BY <3>1, <3>2
  <2>3. QED
    BY <2>2
<1>. HIDE DEF places
<1>4. /\ stale \in Seq(ConfigFiles) /\ Len(stale) = Cardinality(places) /\ Len(stale) \in Nat
      /\ \A i \in places : \E n \in 1..Len(stale) : stale[n] = SetupOrder[i]
  BY <1>1, <1>2, PickedElements
<1>5. Plans = [n \in 1..Len(stale) |-> [file |-> stale[n], contents |-> DesiredContents(stale[n])]]
  BY DEF Plans, places
<1>. HIDE DEF stale
<1>6. \A n \in 1..Len(stale) : [file |-> stale[n], contents |-> DesiredContents(stale[n])] \in Changes
  BY <1>4, DesiredIsWanted
<1>7. Plans \in Seq(Changes)
  BY <1>4, <1>5, <1>6, IsASeq
<1>8. \A n \in 1..Len(stale) : n \in DOMAIN Plans /\ Plans[n].file = stale[n]
  BY <1>5
<1>9. QED
  BY <1>3, <1>4, <1>7, <1>8

\* The steps that leave the files and the plan alone.
ServiceOnly == UNCHANGED <<changes, disk, backups, executable, lastEdit, manager, raced>>

LEMMA ServiceSteps ==
  ASSUME ServiceStep
  PROVE  /\ ServiceOnly
         /\ step \in Serving /\ step' \in Serving \cup {"inspect", "done"}
         /\ \/ run' = run
            \/ run' = [run EXCEPT !.changed = unitFile # run.want]
<1>1. CASE WriteDefinition
  BY <1>1 DEF WriteDefinition, ServiceOnly, serviceVars, fileVars, Step, Serving
<1>2. CASE UpdateLaunchd
  BY <1>2 DEF UpdateLaunchd, LaunchdUpdate, ServiceOnly, serviceVars, fileVars, Step, Serving
<1>3. CASE Bootout \/ Bootstrap \/ DaemonReload \/ Kickstart
  BY <1>3 DEF Bootout, Bootstrap, DaemonReload, Kickstart, ServiceOnly, serviceVars, fileVars,
              Step, Serving
<1>4. CASE Reach
  BY <1>4 DEF Reach, ServiceOnly, serviceVars, fileVars, Step, Serving
<1>5. QED
  BY <1>1, <1>2, <1>3, <1>4 DEF ServiceStep

\* Which runs there are, and where each begins.
LEMMA RunStarts ==
  ASSUME InstStart
  PROVE  /\ step = "idle" /\ changes' = <<>> /\ run'.touched = FALSE
         /\ run'.clean = ~LeftHalfway /\ run'.number = run.number + 1 /\ run'.files \subseteq ConfigFiles
         /\ run' = [command |-> run'.command, want |-> run'.want, files |-> run'.files,
                    number |-> run.number + 1, clean |-> ~LeftHalfway, changed |-> FALSE,
                    touched |-> FALSE]
         /\ step' = FirstStep(run'.command)
         /\ \/ run'.command \in {"install", "setup"} /\ run'.want \in Wanted
            \/ run'.command \in {"start", "check"} /\ run'.want = Nothing
         /\ UNCHANGED <<serviceVars, fileVars, lastEdit, raced, stumbles>>
<1>1. PICK command \in {"install", "start", "setup", "check"}, want \in Wanted \cup {Nothing},
           files \in SUBSET ConfigFiles :
        /\ StartRun(command, want, files)
        /\ command \in {"install", "setup"} => want \in Wanted
        /\ command \in {"start", "check"} => want = Nothing
  <2>1. {} \in SUBSET ConfigFiles /\ {"hook", "settings"} \in SUBSET ConfigFiles
    BY DEF ConfigFiles
  <2>2. QED
    BY <2>1 DEF InstStart
<1>2. run' = [command |-> command, want |-> want, files |-> files, number |-> run.number + 1,
              clean |-> ~LeftHalfway, changed |-> FALSE, touched |-> FALSE]
  BY <1>1 DEF StartRun
<1>3. /\ run'.command = command /\ run'.want = want /\ run'.files = files
      /\ run'.touched = FALSE /\ run'.clean = ~LeftHalfway /\ run'.number = run.number + 1
  BY <1>2
<1>4. QED
  BY <1>1, <1>2, <1>3 DEF StartRun, Step

LEMMA InstTypeInit == InstInit => InstTypeOK
<1>. SUFFICES ASSUME InstInit
              PROVE  InstTypeOK
  OBVIOUS
<1>1. run \in Runs
  BY DEF InstInit, Runs
<1>2. /\ disk["codex"] \in Codexes \cup {Nothing}
      /\ disk["hook"] \in HookScripts \cup {Nothing}
      /\ disk["settings"] \in Settings \cup {Nothing}
  <2>1. HookFile(0, "old") \in HookScripts
    BY DEF HookFile, HookScripts, Scripts
  <2>2. << <<"user">>, <<"oldaf">> >> \in Entries
    BY DEF Entries
  <2>3. SettingsFile(0, "none", << <<"user">>, <<"oldaf">> >>) \in Settings
    BY <2>2 DEF SettingsFile, Settings, Endpoints
  <2>4. QED
    BY <2>1, <2>3 DEF InstInit
<1>3. disk = [file \in ConfigFiles |-> disk[file]]
  BY DEF InstInit, ConfigFiles
<1>4. \A file \in ConfigFiles : disk[file] \in ContentsFor(file) \cup {Nothing}
  BY <1>2, ContentsAreContents DEF ConfigFiles
<1>5. disk \in [ConfigFiles -> Contents \cup {Nothing}]
  BY <1>3, <1>4, ContentsAreContents
<1>6. /\ manager \in {"launchd", "systemd"} /\ step = "idle" /\ changes = <<>>
      /\ backups \in [ConfigFiles -> SUBSET Contents] /\ executable \in BOOLEAN
      /\ lastEdit \in [ConfigFiles -> Nat]
  BY InstAssumption DEF InstInit
<1>7. QED
  BY <1>1, <1>4, <1>5, <1>6 DEF InstTypeOK, Changing

\* A file the user saves has the type of that file, and is new.
LEMMA UserVersionTypes ==
  ASSUME NEW file \in ConfigFiles, NEW edit \in Nat, NEW version \in UserVersions(file, edit)
  PROVE  version \in ContentsFor(file) /\ version \in Contents /\ version.edit = edit
<1>1. CASE file = "codex"
  <2>1. version \in Codexes /\ version.edit = edit
    BY <1>1 DEF UserVersions, CodexFile, Codexes, Endpoints
  <2>2. QED
    BY <1>1, <2>1, ContentsAreContents
<1>2. CASE file = "hook"
  <2>1. version \in HookScripts /\ version.edit = edit
    BY <1>2 DEF UserVersions, HookFile, HookScripts, Scripts
  <2>2. QED
    BY <1>2, <2>1, ContentsAreContents
<1>3. CASE file = "settings"
  <2>1. /\ << <<"user">> >> \in Entries /\ <<>> \in Entries
        /\ << <<"af">>, <<"user", "af">> >> \in Entries
    BY DEF Entries
  <2>2. \A endpoint \in Endpoints, entries \in Entries :
          /\ SettingsFile(edit, endpoint, entries) \in Settings
          /\ SettingsFile(edit, endpoint, entries).edit = edit
    BY DEF SettingsFile, Settings
  <2>3. \E endpoint \in Endpoints, entries \in Entries :
          version = SettingsFile(edit, endpoint, entries)
    BY <1>3, <2>1 DEF UserVersions, Endpoints
  <2>4. QED
    BY <1>3, <2>2, <2>3, ContentsAreContents
<1>4. QED
  BY <1>1, <1>2, <1>3 DEF ConfigFiles

LEMMA EditsAreCounted == InstTypeOK => Edits \in Nat
<1>1. InstTypeOK => lastEdit["codex"] \in Nat /\ lastEdit["hook"] \in Nat /\ lastEdit["settings"] \in Nat
  BY DEF InstTypeOK, ConfigFiles
<1>2. QED
  BY <1>1 DEF Edits

\* The change being made.
LEMMA HeadIsAChange ==
  ASSUME InstTypeOK, step \in Changing
  PROVE  /\ changes # <<>> /\ Len(changes) \in Nat \ {0} /\ Head(changes) = changes[1]
         /\ Head(changes) \in Changes /\ Head(changes).file \in ConfigFiles
         /\ Head(changes).contents \in Contents
         /\ Head(changes).contents \in ContentsFor(Head(changes).file)
         /\ WantedContents(Head(changes).file, Head(changes).contents)
<1>1. changes \in Seq(Changes) /\ changes # <<>>
  BY DEF InstTypeOK
<1>2. Head(changes) \in Changes
  BY <1>1
<1>3. Len(changes) \in Nat \ {0} /\ Head(changes) = changes[1]
  BY <1>1
<1>4. QED
  BY <1>1, <1>2, <1>3 DEF Changes

LEMMA InstTypeInductive == InstTypeOK /\ [InstNext]_instVars => InstTypeOK'
<1>. SUFFICES ASSUME InstTypeOK, [InstNext]_instVars
              PROVE  InstTypeOK'
  OBVIOUS
<1>1. CASE InstStart
  <2>1. run' \in Runs
    <3>1. LeftHalfway \in BOOLEAN /\ run.number + 1 \in Nat
      BY DEF LeftHalfway, InstTypeOK, Runs
    <3>2. /\ run'.command \in {"install", "start", "setup", "check"}
          /\ run'.want \in Wanted \cup {Nothing} /\ run'.files \subseteq ConfigFiles
      BY <1>1, RunStarts
    <3>3. run' = [command |-> run'.command, want |-> run'.want, files |-> run'.files,
                  number |-> run.number + 1, clean |-> ~LeftHalfway, changed |-> FALSE,
                  touched |-> FALSE]
      BY <1>1, RunStarts
    <3>. DEFINE command == run'.command
                want == run'.want
                files == run'.files
    <3>. HIDE DEF command, want, files
    <3>4. /\ command \in {"install", "start", "setup", "check"}
          /\ want \in Wanted \cup {Nothing} /\ files \subseteq ConfigFiles
          /\ run' = [command |-> command, want |-> want, files |-> files,
                     number |-> run.number + 1, clean |-> ~LeftHalfway, changed |-> FALSE,
                     touched |-> FALSE]
      BY <3>2, <3>3 DEF command, want, files
    <3>5. QED
      BY <3>1, <3>4 DEF Runs
  <2>2. step' \in Serving \cup {"idle", "inspect"}
    BY <1>1, RunStarts DEF FirstStep, Serving
  <2>3. UNCHANGED <<manager, disk, backups, executable, lastEdit>> /\ changes' = <<>>
    BY <1>1, RunStarts DEF serviceVars, fileVars
  <2>4. QED
    BY <2>1, <2>2, <2>3 DEF InstTypeOK, Changing, Serving
<1>2. CASE ServiceStep
  <2>1. run' \in Runs
    BY <1>2, ServiceSteps DEF InstTypeOK, Runs
  <2>2. QED
    BY <1>2, <2>1, ServiceSteps DEF ServiceOnly, InstTypeOK, Changing, Serving
<1>3. CASE InspectAgents
  <2>1. \/ changes' = changes /\ step' = "idle"
        \/ /\ changes' = <<>> \/ changes' = Plans
           /\ step' \in {"done", "idle", "confirm"}
           /\ step' = "confirm" => changes' = Plans /\ Plans # <<>>
    BY <1>3 DEF InspectAgents, Step
  <2>2. /\ changes' \in Seq(Changes) /\ (step' \in Changing => changes' # <<>>)
        /\ step' \in {"done", "idle", "confirm"}
    <3>1. Plans \in Seq(Changes) /\ changes \in Seq(Changes) /\ <<>> \in Seq(Changes)
      BY PlansCover DEF InstTypeOK
    <3>2. step' \in Changing => step' = "confirm"
      BY <2>1 DEF Changing
    <3>3. QED
      BY <2>1, <3>1, <3>2
  <2>3. UNCHANGED <<manager, run, disk, backups, executable, lastEdit>>
    BY <1>3 DEF InspectAgents, serviceVars, fileVars
  <2>4. QED
    BY <2>2, <2>3 DEF InstTypeOK, Changing
<1>4. CASE Confirm
  <2>1. /\ \/ step' = "backup" /\ changes' = changes
           \/ step' = "idle" /\ changes' = <<>>
        /\ UNCHANGED <<run, manager, disk, backups, executable, lastEdit>>
    BY <1>4 DEF Confirm, Step, serviceVars, fileVars
  <2>2. changes \in Seq(Changes) /\ changes # <<>>
    BY <1>4, HeadIsAChange DEF Confirm, InstTypeOK, Changing
  <2>3. /\ step' \in Changing \cup {"idle"} /\ changes' \in Seq(Changes)
        /\ step' \in Changing => changes' # <<>>
    <3>1. CASE step' = "backup" /\ changes' = changes
      BY <2>2, <3>1 DEF Changing
    <3>2. CASE step' = "idle" /\ changes' = <<>>
      BY <3>2 DEF Changing
    <3>3. QED
      BY <2>1, <3>1, <3>2
  <2>4. QED
    BY <2>1, <2>3 DEF InstTypeOK
<1>5. CASE BackUp
  <2>1. Head(changes).file \in ConfigFiles /\ step \in Changing
    BY <1>5, HeadIsAChange DEF BackUp, Changing
  <2>2. Copies(Head(changes).file) \subseteq Contents
    BY <2>1 DEF Copies, InstTypeOK
  <2>3. backups' \in [ConfigFiles -> SUBSET Contents]
    BY <1>5, <2>1, <2>2 DEF BackUp, InstTypeOK
  <2>4. QED
    BY <1>5, <2>1, <2>3 DEF BackUp, Step, serviceVars, InstTypeOK, Changing
<1>6. CASE Replace
  <2>. DEFINE change == Head(changes)
  <2>1. /\ change.file \in ConfigFiles /\ change.contents \in Contents
        /\ change.contents \in ContentsFor(change.file) /\ step \in Changing
    BY <1>6, HeadIsAChange DEF Replace, Changing
  <2>2. disk' = [disk EXCEPT ![change.file] = change.contents]
    BY <1>6 DEF Replace
  <2>3. /\ disk' \in [ConfigFiles -> Contents \cup {Nothing}]
        /\ \A file \in ConfigFiles : disk'[file] \in ContentsFor(file) \cup {Nothing}
    BY <2>1, <2>2 DEF InstTypeOK
  <2>4. executable' \in BOOLEAN /\ step' \in {"chmod", "next"}
    BY <1>6 DEF Replace, Step, InstTypeOK
  <2>5. QED
    BY <1>6, <2>1, <2>3, <2>4 DEF Replace, serviceVars, InstTypeOK, Changing
<1>7. CASE MakeExecutable
  BY <1>7 DEF MakeExecutable, Step, serviceVars, InstTypeOK, Changing
<1>8. CASE NextChange
  <2>1. changes \in Seq(Changes) /\ changes # <<>> /\ Len(changes) \in Nat \ {0}
    BY <1>8, HeadIsAChange DEF NextChange, InstTypeOK, Changing
  <2>2. changes' \in Seq(Changes) /\ Len(changes') = Len(changes) - 1
    BY <1>8, <2>1, HeadTailProperties DEF NextChange
  <2>3. /\ step' \in {"done", "backup"} /\ (step' = "backup" => Len(changes) # 1)
        /\ UNCHANGED <<run, manager, disk, backups, executable, lastEdit>>
    BY <1>8 DEF NextChange, Step, serviceVars, fileVars
  <2>4. step' = "backup" => changes' # <<>>
    BY <2>1, <2>2, <2>3
  <2>5. QED
    BY <2>2, <2>3, <2>4 DEF InstTypeOK, Changing
<1>9. CASE FinishRun
  BY <1>9 DEF FinishRun, Step, serviceVars, fileVars, InstTypeOK, Changing
<1>10. CASE Stop
  BY <1>10 DEF Stop, Step, fileVars, InstTypeOK, Changing
<1>11. ASSUME NEW file \in ConfigFiles, EditFile(file)
       PROVE  InstTypeOK'
  <2>1. Edits + 1 \in Nat
    BY EditsAreCounted
  <2>2. PICK version \in UserVersions(file, Edits + 1) : disk' = [disk EXCEPT ![file] = version]
    BY <1>11 DEF EditFile
  <2>3. version \in ContentsFor(file) /\ version \in Contents
    BY <2>1, <2>2, UserVersionTypes
  <2>4. /\ disk' \in [ConfigFiles -> Contents \cup {Nothing}]
        /\ \A f \in ConfigFiles : disk'[f] \in ContentsFor(f) \cup {Nothing}
    BY <2>2, <2>3 DEF InstTypeOK
  <2>5. lastEdit' \in [ConfigFiles -> Nat] /\ executable' \in BOOLEAN
    BY <1>11, <2>1 DEF EditFile, InstTypeOK
  <2>6. run' = [run EXCEPT !.touched = TRUE] /\ UNCHANGED <<step, changes, manager, backups>>
    BY <1>11 DEF EditFile, serviceVars
  <2>7. run' \in Runs
    BY <2>6 DEF InstTypeOK, Runs
  <2>8. QED
    BY <2>4, <2>5, <2>6, <2>7 DEF InstTypeOK
<1>12. CASE UNCHANGED instVars
  BY <1>12 DEF instVars, serviceVars, fileVars, InstTypeOK
<1>13. QED
  BY <1>1, <1>2, <1>3, <1>4, <1>5, <1>6, <1>7, <1>8, <1>9, <1>10, <1>11, <1>12
  DEF InstNext, SetupStep, UserStep

\* The installer and the files it works on have the types the code declares.
THEOREM InstTypeCorrect == InstSpec => []InstTypeOK
<1>1. QED
  BY InstTypeInit, InstTypeInductive, PTL DEF InstSpec

-----------------------------------------------------------------------------
(* The user's edits: between the backup of a file and its replacement, what *)
(* is on disk is in a backup, unless the user saved the file in between.    *)

BackedUp == step = "replace" /\ Head(changes).file \notin raced
                /\ disk[Head(changes).file] # Nothing =>
              disk[Head(changes).file] \in backups[Head(changes).file]

EditsInv == BackedUp /\ EditsSurvive

\* Only three steps touch a file, a backup or the history of the edits.
LEMMA OtherStepsLeaveFiles ==
  ASSUME InstStart \/ ServiceStep \/ InspectAgents \/ Confirm \/ NextChange \/ FinishRun \/ Stop
  PROVE  UNCHANGED <<disk, backups, executable, lastEdit, raced>> /\ step' # "replace"
<1>1. CASE InstStart
  BY <1>1, RunStarts DEF FirstStep, fileVars
<1>2. CASE ServiceStep
  BY <1>2, ServiceSteps DEF ServiceOnly, Serving
<1>3. CASE InspectAgents
  BY <1>3 DEF InspectAgents, Step, fileVars
<1>4. CASE Confirm \/ NextChange \/ FinishRun \/ Stop
  BY <1>4 DEF Confirm, NextChange, FinishRun, Stop, Step, fileVars
<1>5. QED
  BY <1>1, <1>2, <1>3, <1>4

LEMMA EditsInductive == InstTypeOK /\ EditsInv /\ [InstNext]_instVars => EditsInv'
<1>. SUFFICES ASSUME InstTypeOK, EditsInv, [InstNext]_instVars
              PROVE  EditsInv'
  OBVIOUS
<1>1. CASE InstStart \/ ServiceStep \/ InspectAgents \/ Confirm \/ NextChange \/ FinishRun \/ Stop
  BY <1>1, OtherStepsLeaveFiles DEF EditsInv, BackedUp, EditsSurvive
<1>2. CASE BackUp
  <2>. DEFINE f == Head(changes).file
  <2>1. f \in ConfigFiles
    BY <1>2, HeadIsAChange DEF BackUp, Changing
  <2>2. /\ backups' = [backups EXCEPT ![f] = @ \cup Copies(f)] /\ changes' = changes
        /\ UNCHANGED <<disk, lastEdit, raced>>
    BY <1>2 DEF BackUp
  <2>3. BackedUp'
    BY <2>1, <2>2 DEF BackedUp, Copies, InstTypeOK
  <2>4. \A file \in ConfigFiles : backups[file] \subseteq backups'[file]
    BY <2>1, <2>2 DEF InstTypeOK
  <2>5. EditsSurvive'
    BY <2>2, <2>4 DEF EditsInv, EditsSurvive
  <2>6. QED
    BY <2>3, <2>5 DEF EditsInv
<1>3. CASE Replace
  <2>. DEFINE f == Head(changes).file
  <2>1. f \in ConfigFiles
    BY <1>3, HeadIsAChange DEF Replace, Changing
  <2>2. /\ \A file \in ConfigFiles \ {f} : disk'[file] = disk[file]
        /\ UNCHANGED <<backups, lastEdit, raced>> /\ step = "replace"
    BY <1>3, <2>1 DEF Replace, InstTypeOK
  <2>3. ASSUME NEW file \in ConfigFiles \ raced, lastEdit[file] > 0
        PROVE  \E contents \in backups[file] \cup {disk'[file]} :
                 contents # Nothing /\ contents.edit = lastEdit[file]
    <3>1. PICK contents \in backups[file] \cup {disk[file]} :
            contents # Nothing /\ contents.edit = lastEdit[file]
      BY <2>3 DEF EditsInv, EditsSurvive
    <3>2. CASE file = f
      <4>1. contents \in backups[file]
        BY <2>2, <2>3, <3>1, <3>2 DEF EditsInv, BackedUp
      <4>2. QED
        BY <3>1, <4>1
    <3>3. CASE file # f
      BY <2>2, <2>3, <3>1, <3>3
    <3>4. QED
      BY <3>2, <3>3
  <2>4. EditsSurvive'
    BY <2>2, <2>3 DEF EditsSurvive
  <2>5. BackedUp'
    BY <1>3 DEF Replace, Step, BackedUp
  <2>6. QED
    BY <2>4, <2>5 DEF EditsInv
<1>4. CASE MakeExecutable
  BY <1>4 DEF MakeExecutable, Step, EditsInv, BackedUp, EditsSurvive
<1>5. ASSUME NEW file \in ConfigFiles, EditFile(file)
      PROVE  EditsInv'
  <2>1. Edits + 1 \in Nat
    BY EditsAreCounted
  <2>2. PICK version \in UserVersions(file, Edits + 1) : disk' = [disk EXCEPT ![file] = version]
    BY <1>5 DEF EditFile
  <2>3. version.edit = Edits + 1 /\ version \in Contents /\ version # Nothing
    BY <2>1, <2>2, UserVersionTypes, ContentsAreContents
  <2>4. /\ disk'[file] = version /\ lastEdit'[file] = Edits + 1
        /\ \A other \in ConfigFiles \ {file} :
             disk'[other] = disk[other] /\ lastEdit'[other] = lastEdit[other]
        /\ UNCHANGED <<step, changes, backups>>
    BY <1>5, <2>2 DEF EditFile, InstTypeOK
  <2>5. raced' = IF step = "replace" /\ Head(changes).file = file THEN raced \cup {file}
                                                                  ELSE raced \ {file}
    BY <1>5 DEF EditFile
  <2>6. EditsSurvive'
    <3>1. ASSUME NEW other \in ConfigFiles \ raced', lastEdit'[other] > 0
          PROVE  \E contents \in backups[other] \cup {disk'[other]} :
                   contents # Nothing /\ contents.edit = lastEdit'[other]
      <4>1. CASE other = file
        BY <2>3, <2>4, <4>1
      <4>2. CASE other # file
        <5>1. other \in ConfigFiles \ raced /\ lastEdit[other] > 0
          BY <2>4, <2>5, <3>1, <4>2
        <5>2. PICK contents \in backups[other] \cup {disk[other]} :
                contents # Nothing /\ contents.edit = lastEdit[other]
          BY <5>1 DEF EditsInv, EditsSurvive
        <5>3. QED
          BY <2>4, <3>1, <4>2, <5>2
      <4>3. QED
        BY <4>1, <4>2
    <3>2. QED
      BY <2>4, <3>1 DEF EditsSurvive
  <2>7. BackedUp'
    <3>1. CASE step = "replace"
      <4>1. Head(changes).file \in ConfigFiles
        BY <3>1, HeadIsAChange DEF Changing
      <4>2. CASE Head(changes).file = file
        BY <2>4, <2>5, <3>1, <4>2 DEF BackedUp
      <4>3. CASE Head(changes).file # file
        BY <2>4, <2>5, <4>1, <4>3 DEF EditsInv, BackedUp
      <4>4. QED
        BY <4>2, <4>3
    <3>2. CASE step # "replace"
      BY <2>4, <3>2 DEF BackedUp
    <3>3. QED
      BY <3>1, <3>2
  <2>8. QED
    BY <2>6, <2>7 DEF EditsInv
<1>6. CASE UNCHANGED instVars
  BY <1>6 DEF instVars, fileVars, EditsInv, BackedUp, EditsSurvive
<1>7. QED
  BY <1>1, <1>2, <1>3, <1>4, <1>5, <1>6 DEF InstNext, SetupStep, UserStep

\* write_config: what the user last saved of a file is on disk or in a backup,
\* whatever fails, is killed or started again, unless they saved it between
\* the backup and the replacement.
THEOREM UserEditsSurvive == InstSpec => []EditsSurvive
<1>1. InstInit => EditsInv
  BY DEF InstInit, EditsInv, BackedUp, EditsSurvive
<1>2. (InstTypeOK /\ EditsInv) /\ [InstNext]_instVars => (InstTypeOK /\ EditsInv)'
  BY InstTypeInductive, EditsInductive
<1>3. EditsInv => EditsSurvive
  BY DEF EditsInv
<1>4. QED
  BY <1>1, <1>2, <1>3, InstTypeInit, PTL DEF InstSpec

-----------------------------------------------------------------------------
(* The service: a run that did not start from what a failed one left has,   *)
(* from each of its steps on, the definition it wants on disk, then with    *)
(* the manager, then running.                                               *)

ServiceInv ==
    run.clean =>
      /\ step \in {"define", "update", "bootout", "bootstrap", "reload"} =>
           run.command \in {"install", "setup"} /\ run.want \in Wanted
      /\ step = "define" => loaded \in {Nothing, unitFile}
      /\ step \in {"update", "bootout", "bootstrap", "reload"} => unitFile = run.want
      /\ step = "update" /\ loaded # Nothing /\ ~run.changed => loaded = run.want
      /\ step = "kickstart" =>
           /\ run.command \in {"install", "start", "setup"} /\ loaded # Nothing
           /\ run.command = "install" => loaded = run.want
      /\ step = "reach" => run.command \in {"install", "start", "setup"}
      /\ step \in {"inspect"} \cup Changing => run.command \in {"setup", "check"}
      /\ step \in {"reach", "inspect", "done"} \cup Changing => running # Nothing
      /\ step \in {"reach", "done"} /\ run.command = "install" => running = run.want

LEMMA ServiceStepKeeps ==
  ASSUME InstTypeOK, ServiceInv, ServiceStep
  PROVE  ServiceInv'
<1>. USE DEF Changing
<1>0. Nothing \notin Wanted
  BY InstAssumption
<1>1. CASE WriteDefinition
  <2>1. run' = [run EXCEPT !.changed = unitFile # run.want]
    BY <1>1 DEF WriteDefinition
  <2>2. /\ run'.command = run.command /\ run'.want = run.want /\ run'.clean = run.clean
        /\ run'.changed = (unitFile # run.want)
    BY <2>1 DEF InstTypeOK, Runs
  <2>3. /\ step = "define" /\ step' \in {"update", "reload"} /\ unitFile' = run.want
        /\ loaded' = loaded
    BY <1>1 DEF WriteDefinition, Step
  <2>4. QED
    BY <2>2, <2>3 DEF ServiceInv
<1>2. CASE UpdateLaunchd
  BY <1>0, <1>2 DEF UpdateLaunchd, LaunchdUpdate, Step, serviceVars, ServiceInv
<1>3. CASE Bootout
  BY <1>3 DEF Bootout, Step, ServiceInv
<1>4. CASE Bootstrap
  BY <1>0, <1>4 DEF Bootstrap, Step, ServiceInv
<1>5. CASE DaemonReload
  BY <1>0, <1>5 DEF DaemonReload, Step, ServiceInv
<1>6. CASE Kickstart
  BY <1>6 DEF Kickstart, Step, ServiceInv
<1>7. CASE Reach
  BY <1>7 DEF Reach, Step, serviceVars, ServiceInv
<1>8. QED
  BY <1>1, <1>2, <1>3, <1>4, <1>5, <1>6, <1>7 DEF ServiceStep

LEMMA ServiceInductive == InstTypeOK /\ ServiceInv /\ [InstNext]_instVars => ServiceInv'
<1>. SUFFICES ASSUME InstTypeOK, ServiceInv, [InstNext]_instVars
              PROVE  ServiceInv'
  OBVIOUS
<1>1. CASE InstStart
  <2>1. /\ run'.clean = ~LeftHalfway /\ step' = FirstStep(run'.command)
        /\ UNCHANGED <<unitFile, loaded, running>>
        /\ \/ run'.command \in {"install", "setup"} /\ run'.want \in Wanted
           \/ run'.command \in {"start", "check"} /\ run'.want = Nothing
    BY <1>1, RunStarts DEF serviceVars
  <2>2. run'.clean => loaded \in {Nothing, unitFile}
    BY <2>1 DEF LeftHalfway
  <2>3. /\ step' \in {"define", "kickstart", "inspect", "idle"}
        /\ step' = "define" => run'.command \in {"install", "setup"}
        /\ step' = "kickstart" => run'.command = "start" /\ loaded # Nothing
        /\ step' = "inspect" => run'.command \in {"setup", "check"} /\ running # Nothing
    BY <2>1 DEF FirstStep
  <2>4. QED
    BY <2>1, <2>2, <2>3 DEF ServiceInv, Changing
<1>2. CASE ServiceStep
  BY <1>2, ServiceStepKeeps
<1>3. CASE InspectAgents
  <2>1. step = "inspect" /\ step' \in {"idle", "done", "confirm"}
        /\ UNCHANGED <<run, unitFile, loaded, running>>
    BY <1>3 DEF InspectAgents, Step, serviceVars
  <2>2. QED
    BY <2>1 DEF ServiceInv, Changing
<1>4. CASE Confirm \/ BackUp \/ Replace \/ MakeExecutable \/ NextChange
  <2>1. /\ step \in Changing /\ step' \in Changing \cup {"idle", "done"}
        /\ UNCHANGED <<run, unitFile, loaded, running>>
    BY <1>4 DEF Confirm, BackUp, Replace, MakeExecutable, NextChange, Step, serviceVars, Changing
  <2>2. QED
    BY <2>1 DEF ServiceInv, Changing
<1>5. CASE FinishRun \/ Stop
  BY <1>5 DEF FinishRun, Stop, Step, ServiceInv, Changing
<1>6. ASSUME NEW file \in ConfigFiles, EditFile(file)
      PROVE  ServiceInv'
  <2>1. run' = [run EXCEPT !.touched = TRUE] /\ UNCHANGED <<step, unitFile, loaded, running>>
    BY <1>6 DEF EditFile, serviceVars
  <2>2. /\ run'.command = run.command /\ run'.want = run.want /\ run'.clean = run.clean
        /\ run'.changed = run.changed
    BY <2>1 DEF InstTypeOK, Runs
  <2>3. QED
    BY <2>1, <2>2 DEF ServiceInv
<1>7. CASE UNCHANGED instVars
  BY <1>7 DEF instVars, serviceVars, ServiceInv
<1>8. QED
  BY <1>1, <1>2, <1>3, <1>4, <1>5, <1>6, <1>7 DEF InstNext, SetupStep, UserStep

-----------------------------------------------------------------------------
(* The files: every file a run looks at is as it wants it or has a change   *)
(* waiting, and a hook it put there is executable once it is past that step.*)

Waiting(file, first) == \E i \in DOMAIN changes : i >= first /\ changes[i].file = file

PlanCovers ==
    /\ step \in {"confirm", "backup", "replace"} =>
         \A file \in run.files : UpToDate(file) \/ Waiting(file, 1)
    /\ step \in {"chmod", "next"} =>
         \A file \in run.files : UpToDate(file) \/ Waiting(file, 2)
    /\ step = "done" /\ run.command \in {"setup", "check"} =>
         \A file \in run.files : UpToDate(file)

HookRuns ==
    run.clean /\ step \notin {"idle", "chmod"} =>
        (disk["hook"] # Nothing /\ disk["hook"].script = "af" => executable)

FilesInv ==
    /\ step \in Serving => run.command \in {"install", "start", "setup"}
    /\ ~run.touched => PlanCovers /\ HookRuns

\* A file that was just replaced is what the run wants it to be.
LEMMA ReplacedIsUpToDate ==
  ASSUME InstTypeOK, Replace, NEW f \in ConfigFiles, f = Head(changes).file
  PROVE  UpToDate(f)'
<1>. DEFINE c == Head(changes).contents
<1>1. /\ f \in ConfigFiles /\ c \in ContentsFor(f) /\ c # Nothing /\ WantedContents(f, c)
  BY HeadIsAChange, ContentsAreContents DEF Replace, Changing
<1>2. disk'[f] = c
  BY <1>1 DEF Replace, InstTypeOK
<1>. HIDE DEF c
<1>3. CASE f = "codex"
  <2>1. c = CodexFile(c.edit, "af") /\ disk'["codex"] = c
    BY <1>1, <1>2, <1>3 DEF WantedContents
  <2>2. QED
    BY <1>1, <1>3, <2>1 DEF UpToDate, DesiredContents
<1>4. CASE f = "hook"
  <2>1. disk'["hook"] = HookFile(0, "af")
    BY <1>1, <1>2, <1>4 DEF WantedContents
  <2>2. QED
    BY <1>1, <1>2, <1>4, <2>1 DEF UpToDate, HookFile
<1>5. CASE f = "settings"
  <2>1. MergeSettings(c) = c /\ disk'["settings"] = c
    BY <1>1, <1>2, <1>5 DEF WantedContents
  <2>2. QED
    BY <1>5, <2>1 DEF UpToDate, DesiredContents
<1>6. QED
  BY <1>1, <1>3, <1>4, <1>5 DEF ConfigFiles

\* Whether a file is up to date depends on that file alone.
LEMMA UpToDateIsLocal ==
  ASSUME NEW file \in ConfigFiles, disk'[file] = disk[file], UpToDate(file)
  PROVE  UpToDate(file)'
  BY DEF UpToDate, DesiredContents, ConfigFiles

\* A step of the installer that changes no file keeps what is up to date.
LEMMA UpToDateStays ==
  ASSUME InstTypeOK, disk' = disk
  PROVE  \A file \in run.files : UpToDate(file) => UpToDate(file)'
<1>1. \A file \in run.files : file \in ConfigFiles
  BY DEF InstTypeOK, Runs
<1>2. QED
  BY <1>1, UpToDateIsLocal

LEMMA SetupStepCovers ==
  ASSUME InstTypeOK, FilesInv, ~run.touched, SetupStep
  PROVE  PlanCovers'
<1>. USE DEF PlanCovers
<1>1. run' = run
  BY DEF SetupStep, InspectAgents, Confirm, BackUp, Replace, MakeExecutable, NextChange, FinishRun
<1>2. CASE InspectAgents
  <2>1. /\ disk' = disk
        /\ \/ step' = "idle"
           \/ step' = "confirm" /\ changes' = Plans
           \/ step' = "done" /\ Plans = <<>>
    BY <1>2 DEF InspectAgents, Step, fileVars
  <2>2. \A file \in run.files : UpToDate(file) \/ \E i \in DOMAIN Plans : Plans[i].file = file
    BY PlansCover
  <2>3. \A i \in DOMAIN Plans : i >= 1
    BY PlansCover
  <2>4. CASE step' = "confirm" /\ changes' = Plans
    BY <1>1, <2>1, <2>2, <2>3, <2>4, UpToDateStays DEF Waiting
  <2>5. CASE step' = "done" /\ Plans = <<>>
    <3>1. \A file \in run.files : UpToDate(file)
      BY <2>2, <2>5
    <3>2. QED
      BY <1>1, <2>1, <2>5, <3>1, UpToDateStays
  <2>6. QED
    BY <2>1, <2>4, <2>5
<1>3. CASE Confirm \/ BackUp
  <2>1. /\ disk' = disk /\ step \in {"confirm", "backup"}
        /\ \/ step' = "idle"
           \/ step' \in {"backup", "replace"} /\ changes' = changes
    BY <1>3 DEF Confirm, BackUp, Step, fileVars
  <2>2. \A file \in run.files : UpToDate(file) \/ Waiting(file, 1)
    BY <2>1 DEF FilesInv
  <2>3. CASE step' \in {"backup", "replace"} /\ changes' = changes
    BY <1>1, <2>1, <2>2, <2>3, UpToDateStays DEF Waiting
  <2>4. QED
    BY <2>1, <2>3
<1>4. CASE Replace
  <2>1. /\ step = "replace" /\ step' \in {"chmod", "next"} /\ changes' = changes
        /\ disk' = [disk EXCEPT ![Head(changes).file] = Head(changes).contents]
    BY <1>4 DEF Replace, Step
  <2>2. /\ \A file \in run.files : UpToDate(file) \/ Waiting(file, 1)
        /\ Head(changes).file \in ConfigFiles /\ Head(changes) = changes[1]
        /\ changes \in Seq(Changes) /\ run.files \subseteq ConfigFiles
    BY <2>1, HeadIsAChange DEF FilesInv, Changing, InstTypeOK, Runs
  <2>3. ASSUME NEW file \in run.files
        PROVE  UpToDate(file)' \/ Waiting(file, 2)
    <3>1. CASE file = Head(changes).file
      BY <1>4, <2>2, <3>1, ReplacedIsUpToDate
    <3>2. CASE file # Head(changes).file
      <4>1. disk'[file] = disk[file]
        BY <2>1, <2>2, <3>2 DEF InstTypeOK
      <4>2. CASE UpToDate(file)
        BY <2>2, <4>1, <4>2, UpToDateIsLocal
      <4>3. CASE Waiting(file, 1)
        <5>1. PICK i \in DOMAIN changes : i >= 1 /\ changes[i].file = file
          BY <4>3 DEF Waiting
        <5>2. i # 1 /\ i \in Nat
          BY <2>2, <3>2, <5>1
        <5>3. QED
          BY <5>1, <5>2 DEF Waiting
      <4>4. QED
        BY <2>2, <4>2, <4>3
    <3>3. QED
      BY <3>1, <3>2
  <2>4. \A file \in run.files : Waiting(file, 2)' <=> Waiting(file, 2)
    BY <2>1 DEF Waiting
  <2>5. QED
    BY <1>1, <2>1, <2>3, <2>4
<1>5. CASE MakeExecutable
  <2>1. /\ disk' = disk /\ step = "chmod" /\ step' = "next" /\ changes' = changes
    BY <1>5 DEF MakeExecutable, Step
  <2>2. \A file \in run.files : UpToDate(file) \/ Waiting(file, 2)
    BY <2>1 DEF FilesInv
  <2>3. QED
    BY <1>1, <2>1, <2>2, UpToDateStays DEF Waiting
<1>6. CASE NextChange
  <2>1. /\ disk' = disk /\ step = "next" /\ changes' = Tail(changes)
        /\ step' = IF Len(changes) = 1 THEN "done" ELSE "backup"
    BY <1>6 DEF NextChange, Step, fileVars
  <2>2. /\ \A file \in run.files : UpToDate(file) \/ Waiting(file, 2)
        /\ changes \in Seq(Changes) /\ changes # <<>> /\ Len(changes) \in Nat \ {0}
    BY <2>1, HeadIsAChange DEF FilesInv, Changing, InstTypeOK
  <2>3. /\ Len(Tail(changes)) = Len(changes) - 1
        /\ \A i \in 1..Len(Tail(changes)) : Tail(changes)[i] = changes[i + 1]
        /\ DOMAIN changes = 1..Len(changes) /\ DOMAIN Tail(changes) = 1..(Len(changes) - 1)
    BY <2>2, HeadTailProperties, LenProperties
  <2>4. ASSUME NEW file \in run.files, Waiting(file, 2)
        PROVE  Len(changes) # 1 /\ Waiting(file, 1)'
    <3>1. PICK i \in DOMAIN changes : i >= 2 /\ changes[i].file = file
      BY <2>4 DEF Waiting
    <3>2. Len(changes) # 1 /\ i - 1 \in 1..(Len(changes) - 1) /\ i - 1 >= 1
      BY <2>2, <2>3, <3>1
    <3>3. Tail(changes)[i - 1] = changes[i]
      BY <2>2, <2>3, <3>1, <3>2
    <3>4. QED
      BY <2>1, <2>3, <3>1, <3>2, <3>3 DEF Waiting
  <2>5. QED
    BY <1>1, <2>1, <2>2, <2>4, UpToDateStays
<1>7. CASE FinishRun
  BY <1>7 DEF FinishRun, Step
<1>8. QED
  BY <1>2, <1>3, <1>4, <1>5, <1>6, <1>7 DEF SetupStep

LEMMA SetupStepHooks ==
  ASSUME InstTypeOK, FilesInv, ~run.touched, SetupStep
  PROVE  HookRuns'
<1>1. run' = run /\ step \notin {"idle"}
  BY DEF SetupStep, InspectAgents, Confirm, BackUp, Replace, MakeExecutable, NextChange, FinishRun
<1>2. CASE Replace
  <2>1. Head(changes).file \in ConfigFiles /\ step = "replace"
    BY <1>2, HeadIsAChange DEF Replace, Changing
  <2>2. CASE Head(changes).file = "hook"
    BY <1>2, <2>2 DEF Replace, Step, HookRuns
  <2>3. CASE Head(changes).file # "hook"
    <3>1. disk'["hook"] = disk["hook"] /\ executable' = executable
      BY <1>2, <2>1, <2>3 DEF Replace, InstTypeOK, ConfigFiles
    <3>2. QED
      BY <1>1, <2>1, <3>1 DEF FilesInv, HookRuns
  <2>4. QED
    BY <2>2, <2>3
<1>3. CASE MakeExecutable
  BY <1>3 DEF MakeExecutable, HookRuns
<1>4. CASE InspectAgents \/ Confirm \/ BackUp \/ NextChange \/ FinishRun
  <2>1. disk' = disk /\ executable' = executable /\ step # "chmod"
    BY <1>4 DEF InspectAgents, Confirm, BackUp, NextChange, FinishRun, fileVars
  <2>2. QED
    BY <1>1, <2>1 DEF FilesInv, HookRuns
<1>5. QED
  BY <1>2, <1>3, <1>4 DEF SetupStep

LEMMA FilesInductive == InstTypeOK /\ FilesInv /\ [InstNext]_instVars => FilesInv'
<1>. SUFFICES ASSUME InstTypeOK, FilesInv, [InstNext]_instVars
              PROVE  FilesInv'
  OBVIOUS
<1>1. CASE InstStart
  <2>1. /\ run'.clean = ~LeftHalfway /\ step' = FirstStep(run'.command)
        /\ UNCHANGED <<disk, executable>>
        /\ run'.command \in {"install", "setup", "start", "check"}
    BY <1>1, RunStarts DEF fileVars
  <2>2. /\ step' \in {"define", "kickstart", "inspect", "idle"}
        /\ step' \in {"define", "kickstart"} => run'.command # "check"
    BY <2>1 DEF FirstStep
  <2>3. HookRuns'
    BY <2>1 DEF LeftHalfway, HookRuns
  <2>4. QED
    BY <2>1, <2>2, <2>3 DEF FilesInv, PlanCovers, Serving
<1>2. CASE ServiceStep
  <2>1. /\ step \in Serving /\ step' \in Serving \cup {"inspect", "done"}
        /\ UNCHANGED <<disk, executable>>
        /\ run'.clean = run.clean /\ run'.touched = run.touched
        /\ run'.command = run.command
    BY <1>2, ServiceSteps DEF ServiceOnly, InstTypeOK, Runs
  <2>2. run'.command \in {"install", "start", "setup"}
    BY <2>1 DEF FilesInv
  <2>3. step' = "done" => run'.command # "setup"
    BY <1>2, <2>1 DEF ServiceStep, WriteDefinition, UpdateLaunchd, LaunchdUpdate, Bootout,
                      Bootstrap, DaemonReload, Kickstart, Reach, Step
  <2>4. PlanCovers'
    BY <2>1, <2>2, <2>3 DEF PlanCovers, Serving
  <2>5. ~run.touched => HookRuns'
    BY <2>1 DEF FilesInv, HookRuns, Serving
  <2>6. QED
    BY <2>1, <2>2, <2>4, <2>5 DEF FilesInv
<1>3. CASE SetupStep
  <2>1. run' = run /\ step' \notin Serving
    BY <1>3 DEF SetupStep, InspectAgents, Confirm, BackUp, Replace, MakeExecutable, NextChange,
                FinishRun, Step, Serving
  <2>2. QED
    BY <1>3, <2>1, SetupStepCovers, SetupStepHooks DEF FilesInv
<1>4. CASE Stop
  BY <1>4 DEF Stop, Step, FilesInv, PlanCovers, HookRuns, Serving
<1>5. CASE UserStep
  <2>1. PICK file \in ConfigFiles : run' = [run EXCEPT !.touched = TRUE] /\ step' = step
    BY <1>5 DEF UserStep, EditFile
  <2>2. run'.touched /\ run'.command = run.command
    BY <2>1 DEF InstTypeOK, Runs
  <2>3. QED
    BY <2>1, <2>2 DEF FilesInv
<1>6. CASE UNCHANGED instVars
  <2>1. UNCHANGED <<run, step, changes, disk, executable>>
    BY <1>6 DEF instVars, fileVars
  <2>2. ~run.touched => PlanCovers'
    BY <2>1, UpToDateStays DEF FilesInv, PlanCovers, Waiting
  <2>3. QED
    BY <2>1, <2>2 DEF FilesInv, HookRuns
<1>7. QED
  BY <1>1, <1>2, <1>3, <1>4, <1>5, <1>6 DEF InstNext

InstallInv == InstTypeOK /\ ServiceInv /\ FilesInv

LEMMA InstalledWhenDone == InstallInv => SuccessMeansInstalled
<1>. SUFFICES ASSUME InstallInv, step = "done", run.clean, ~run.touched
              PROVE  /\ running # Nothing
                     /\ run.command = "install" => running = run.want
                     /\ run.command \in {"setup", "check"} =>
                          /\ \A file \in run.files : UpToDate(file)
                          /\ "hook" \in run.files => executable
                          /\ "settings" \in run.files => Registered = << <<"af">> >>
  BY DEF SuccessMeansInstalled
<1>1. running # Nothing /\ (run.command = "install" => running = run.want)
  BY DEF InstallInv, ServiceInv
<1>2. ASSUME run.command \in {"setup", "check"}
      PROVE  /\ \A file \in run.files : UpToDate(file)
             /\ "hook" \in run.files => executable
             /\ "settings" \in run.files => Registered = << <<"af">> >>
  <2>1. \A file \in run.files : UpToDate(file)
    BY <1>2 DEF InstallInv, FilesInv, PlanCovers
  <2>2. ASSUME "hook" \in run.files
        PROVE  executable
    <3>1. disk["hook"] # Nothing /\ disk["hook"].script = "af"
      BY <2>1, <2>2 DEF UpToDate
    <3>2. QED
      BY <3>1 DEF InstallInv, FilesInv, HookRuns
  <2>3. ASSUME "settings" \in run.files
        PROVE  Registered = << <<"af">> >>
    <3>1. disk["settings"] = MergeSettings(disk["settings"])
      BY <2>1, <2>3 DEF UpToDate, DesiredContents
    <3>2. disk["settings"] \in Settings \cup {Nothing}
      BY ContentsAreContents DEF InstallInv, InstTypeOK, ConfigFiles
    <3>3. Registered = <<AfEntry>>
      BY <3>1, <3>2, MergedSettings DEF Registered
    <3>4. QED
      BY <3>3 DEF AfEntry
  <2>4. QED
    BY <2>1, <2>2, <2>3
<1>3. QED
  BY <1>1, <1>2

\* setup.rs, service.rs: a run that says it succeeded has installed what it
\* was asked to, unless it started from what a failed run left half-way or the
\* user edited a file meanwhile.
THEOREM InstallSucceeds == InstSpec => []SuccessMeansInstalled
<1>1. InstInit => InstallInv
  BY InstTypeInit DEF InstInit, InstallInv, ServiceInv, FilesInv, PlanCovers, HookRuns,
                      Serving, Changing
<1>2. InstallInv /\ [InstNext]_instVars => InstallInv'
  BY InstTypeInductive, ServiceInductive, FilesInductive DEF InstallInv
<1>3. QED
  BY <1>1, <1>2, InstalledWhenDone, PTL DEF InstSpec

=============================================================================
