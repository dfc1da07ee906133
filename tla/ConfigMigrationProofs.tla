----------------------- MODULE ConfigMigrationProofs -----------------------
(***************************************************************************)
(* The migration never loses what the user wrote, and a gateway runs by    *)
(* what of it is taken over, for any set of files and any sequence of      *)
(* starts, failed writes and crashes.                                      *)
(***************************************************************************)
EXTENDS ConfigMigration, TLAPS

(* NeverLost is not inductive: a backup overwrites the last copy unless    *)
(* what is backed up is the user's own file, as written or as restored     *)
(* from a backup.  That is so because a file the migration has touched is  *)
(* never old again: it has the current version, or none.                   *)
UsersOwn(f) == f = orig \/ f = FixWindowsPaths(orig)
Saved == bak = FixWindowsPaths(orig)
Touched == file.version \in {NoVersion, CurrentVersion}

MigrationInv ==
    /\ orig \in UserFiles
    /\ UsersOwn(file) \/ (Touched /\ Saved)
    /\ pc \in {"backup", "write"} => UsersOwn(file) /\ y = FixWindowsPaths(orig)
    /\ pc = "write" \/ bak.whole => Saved

(* A file read through fixWindowsPaths once is not changed by it again.    *)
LEMMA FixTwice ==
    ASSUME NEW f \in UserFiles
    PROVE  FixWindowsPaths(FixWindowsPaths(f)) = FixWindowsPaths(f)
<1> DEFINE Fix(t) == IF t.quote = "double" THEN [t EXCEPT !.quote = "single"] ELSE t
           once  == [k \in Keys |-> Fix(f.at[k])]
           twice == [k \in Keys |-> Fix(once[k])]
<1>1. f.at \in [Keys -> Texts \cup {Absent}]
  BY FilesAssumption DEF Files
<1>2. ASSUME NEW k \in Keys PROVE Fix(Fix(f.at[k])) = Fix(f.at[k])
  <2>1. f.at[k] \in Texts \/ f.at[k] = Absent
    BY <1>1, <1>2
  <2>2. f.at[k].quote = "double" => [f.at[k] EXCEPT !.quote = "single"].quote # "double"
    BY <2>1 DEF Texts, Absent
  <2>3. CASE f.at[k].quote = "double"
    BY <2>2, <2>3
  <2>4. CASE f.at[k].quote # "double"
    BY <2>4
  <2> QED BY <2>3, <2>4
<1>3. twice = once
  BY <1>2
<1>4. FixWindowsPaths(f) = [f EXCEPT !.at = once]
  BY DEF FixWindowsPaths
<1> QED BY <1>3, <1>4 DEF FixWindowsPaths

(* What a write leaves of the migrated file, whole or cut.                 *)
LEMMA MigratedIsTouched ==
    ASSUME NEW f, NEW n \in Nat
    PROVE  /\ GenerateMigratedConfig(f).version = CurrentVersion
           /\ Cut(GenerateMigratedConfig(f), n).version \in {NoVersion, CurrentVersion}
<1>1. GenerateMigratedConfig(f).version = CurrentVersion
  BY DEF GenerateMigratedConfig
<1> QED BY <1>1 DEF Cut

LEMMA MigrationInvInit == Init => MigrationInv
BY DEF Init, MigrationInv, UsersOwn, NoFile

LEMMA MigrationInvStep == MigrationInv /\ [Next]_vars => MigrationInv'
<1> SUFFICES ASSUME MigrationInv, [Next]_vars PROVE MigrationInv'
  OBVIOUS
<1> USE DEF MigrationInv, Saved, Touched, UsersOwn, disk
<1>1. CASE ReadFile
  (* Only the user's own file sends the process to its backup. *)
  <2>1. pc' = "backup" => UsersOwn(file)
    BY <1>1 DEF ReadFile, CurrentVersion, NoVersion
  <2>2. UsersOwn(file) => FixWindowsPaths(file) = FixWindowsPaths(orig)
    BY FixTwice
  <2> QED BY <1>1, <2>1, <2>2 DEF ReadFile
<1>2. CASE Backup
  BY <1>2 DEF Backup
<1>3. CASE BackupFails
  BY <1>3 DEF BackupFails, Cut
<1>4. CASE WriteMigrated
  <2>1. Touched'
    BY <1>4, MigratedIsTouched DEF WriteMigrated
  <2> QED BY <1>4, <2>1 DEF WriteMigrated
<1>5. CASE WriteFails
  <2>1. PICK n \in 0 .. Len(Order) : file' = Cut(GenerateMigratedConfig(y), n)
    BY <1>5 DEF WriteFails
  <2>2. n \in Nat
    BY <2>1 DEF Order
  <2>3. Touched'
    BY <2>1, <2>2, MigratedIsTouched
  <2> QED BY <1>5, <2>3 DEF WriteFails
<1>6. CASE Reread \/ ApplyFile \/ Validate \/ Ends
  BY <1>6 DEF Reread, ApplyFile, Validate, Ends
<1>7. CASE ApplyEnv \/ ApplyFlags
  BY <1>7 DEF ApplyEnv, ApplyFlags
<1>8. CASE Refused \/ UNCHANGED vars
  BY <1>8 DEF Refused, vars
<1>9. CASE RestoreBackup
  BY <1>9 DEF RestoreBackup
<1> QED BY <1>1, <1>2, <1>3, <1>4, <1>5, <1>6, <1>7, <1>8, <1>9 DEF Next

(* The user's file, with its own or with other quotes, tells everything.   *)
LEMMA OwnTells == ASSUME orig \in UserFiles, NEW f, UsersOwn(f) PROVE Tells(f)
<1>1. orig.whole /\ orig.at \in [Keys -> Texts \cup {Absent}]
  BY FilesAssumption DEF Files
<1>2. FixWindowsPaths(f) = FixWindowsPaths(orig)
  BY FixTwice DEF UsersOwn
<1>3. CASE f = orig
  BY <1>1, <1>3 DEF Tells
<1>4. CASE f = FixWindowsPaths(orig)
  <2>1. f.whole /\ f.at = [k \in Keys |->
          IF orig.at[k].quote = "double" THEN [orig.at[k] EXCEPT !.quote = "single"] ELSE orig.at[k]]
    BY <1>1, <1>4 DEF FixWindowsPaths
  <2>2. ASSUME NEW k \in Keys, orig.at[k] # Absent
        PROVE  f.at[k] # Absent
    <3>1. orig.at[k] \in Texts
      BY <1>1, <2>2
    <3>2. orig.at[k].val # "absent"
      BY <3>1 DEF Texts, Keys, Known, Settings, FlatKeys, Range
    <3>3. f.at[k].val = orig.at[k].val
      BY <2>1, <2>2, <3>1 DEF Texts
    <3> QED BY <3>2, <3>3 DEF Absent
  <2> QED BY <1>2, <2>1, <2>2 DEF Tells
<1> QED BY <1>3, <1>4 DEF UsersOwn

(* README.md:322, "data is never lost on write failure": in every          *)
(* reachable state of fileSource.Apply the configuration file or its       *)
(* backup tells all the user wrote.                                        *)
THEOREM DataNeverLost == Spec => []NeverLost
<1>1. MigrationInv => NeverLost
  BY OwnTells DEF MigrationInv, NeverLost, UsersOwn, Saved
<1> QED BY <1>1, MigrationInvInit, MigrationInvStep, PTL DEF Spec

-----------------------------------------------------------------------------
(* What the operators do with a file, key by key.                          *)

(* The flat keys of a setting, and that no setting is one of them.         *)
LEMMA FlatFacts ==
    ASSUME NEW s \in Settings
    PROVE  /\ DOMAIN FlatKeys[s] \subseteq {1, 2}
           /\ \A i \in DOMAIN FlatKeys[s] : FlatKeys[s][i] \in Keys \ Settings
           /\ Range(FlatKeys[s]) = {FlatKeys[s][i] : i \in DOMAIN FlatKeys[s]}
           /\ s \in {"policy", "trusted-networks", "log.file.path", "tcp.family-mismatch"}
                => Range(FlatKeys[s]) = {}
<1> DEFINE F == FlatKeys[s]
<1>1. F = CASE s = "tcp.detect-timeout" -> <<"detect-timeout">>
            [] s = "udp.max-sessions"   -> <<"max-sessions">>
            [] s = "udp.header-mode"    -> <<"udp-output", "header-mode">>
            [] OTHER                    -> <<>>
  BY DEF FlatKeys
<1>2. Range(F) = {F[i] : i \in DOMAIN F}
  BY DEF Range
<1>3. \A i \in DOMAIN F : F[i] \in Keys
  BY <1>2 DEF Keys, Known
<1>4. /\ DOMAIN F \subseteq {1, 2}
      /\ \A i \in DOMAIN F : F[i] \in {"detect-timeout", "max-sessions", "udp-output", "header-mode"}
      /\ s \in {"policy", "trusted-networks", "log.file.path", "tcp.family-mismatch"}
           => DOMAIN F = {}
  <2>1. CASE s = "tcp.detect-timeout"
    BY <1>1, <2>1
  <2>2. CASE s = "udp.max-sessions"
    BY <1>1, <2>2
  <2>3. CASE s = "udp.header-mode"
    BY <1>1, <2>3
  <2>4. CASE s \notin {"tcp.detect-timeout", "udp.max-sessions", "udp.header-mode"}
    <3>1. F = <<>>
      BY <1>1, <2>4
    <3> QED BY <2>4, <3>1
  <2> QED BY <2>1, <2>2, <2>3, <2>4
<1>5. \A i \in DOMAIN F : F[i] \notin Settings
  BY <1>4 DEF Settings
<1> HIDE DEF F
<1>6. s \in {"policy", "trusted-networks", "log.file.path", "tcp.family-mismatch"} => Range(F) = {}
  BY <1>2, <1>4
<1> QED BY <1>2, <1>3, <1>4, <1>5, <1>6 DEF F

(* Absent is no text; every setting and the unknown key is a key.          *)
LEMMA KeyFacts ==
    /\ Settings \subseteq Keys /\ "unknown" \in Keys \ Settings
    /\ "absent" \notin Keys \cup {"default", "legacy"}
    /\ "udp.max-sessions" \in Settings
BY DEF Keys, Known, Settings, FlatKeys, Range

(* The first of at most two places.                                        *)
LEMMA MinOfTwo == ASSUME NEW S \in SUBSET {1, 2}, S # {} PROVE Min(S) \in S
<1>1. \E x \in S : \A z \in S : x <= z
  <2>1. CASE 1 \in S
    BY <2>1
  <2>2. CASE 1 \notin S
    <3>1. 2 \in S /\ \A z \in S : z = 2
      BY <2>2
    <3> QED BY <3>1
  <2> QED BY <2>1, <2>2
<1> QED BY <1>1 DEF Min

(* fixWindowsPaths changes the quotes and nothing else.                    *)
SameText(t, u) ==
    /\ t \in Texts \cup {Absent} /\ (t \in Texts <=> t # Absent)
    /\ u \in Texts \cup {Absent} /\ (u = Absent <=> t = Absent)
    /\ u.val = t.val /\ u.slashes = t.slashes /\ u.quote # "double"
    /\ u.quote = "int" <=> t.quote = "int"

LEMMA FixText ==
    ASSUME NEW t \in Texts \cup {Absent}
    PROVE  SameText(t, IF t.quote = "double" THEN [t EXCEPT !.quote = "single"] ELSE t)
<1>1. \A x \in Texts : x # Absent
  BY KeyFacts DEF Texts, Absent
<1>2. Absent.quote = "plain"
  BY DEF Absent
<1>3. CASE t \in Texts /\ t.quote = "double"
  <2> DEFINE u == [t EXCEPT !.quote = "single"]
  <2>1. u \in Texts /\ u.val = t.val /\ u.slashes = t.slashes /\ u.quote = "single"
    BY <1>3 DEF Texts
  <2> HIDE DEF u
  <2>2. SameText(t, u)
    BY <1>1, <1>3, <2>1 DEF SameText
  <2> QED BY <1>3, <2>2 DEF u
<1>4. CASE t.quote # "double"
  BY <1>1, <1>4 DEF SameText
<1> QED BY <1>2, <1>3, <1>4

LEMMA FixKeys ==
    ASSUME NEW f \in Files, NEW k \in Keys
    PROVE  SameText(f.at[k], FixWindowsPaths(f).at[k])
<1>1. f.at[k] \in Texts \cup {Absent}
  BY DEF Files
<1>2. FixWindowsPaths(f).at[k] =
        IF f.at[k].quote = "double" THEN [f.at[k] EXCEPT !.quote = "single"] ELSE f.at[k]
  BY DEF FixWindowsPaths, Files
<1> QED BY <1>1, <1>2, FixText

LEMMA FixFiles == ASSUME NEW f \in Files PROVE FixWindowsPaths(f) \in Files
<1> DEFINE g == FixWindowsPaths(f)
           at == [k \in Keys |->
                    IF f.at[k].quote = "double" THEN [f.at[k] EXCEPT !.quote = "single"] ELSE f.at[k]]
<1>1. g = [whole |-> f.whole, version |-> f.version, at |-> at]
  BY DEF FixWindowsPaths, Files
<1>2. at = [k \in Keys |-> g.at[k]]
  BY <1>1
<1>3. \A k \in Keys : g.at[k] \in Texts \cup {Absent}
  BY FixKeys DEF SameText
<1> HIDE DEF g
<1>4. at \in [Keys -> Texts \cup {Absent}]
  BY <1>2, <1>3
<1> HIDE DEF at
<1> QED BY <1>1, <1>4 DEF Files, g

(* What the user may have written, once for all the lemmas.                *)
LEMMA UserFacts ==
    ASSUME orig \in UserFiles
    PROVE  /\ orig \in Files /\ orig.whole
           /\ \A k \in Keys : orig.at[k] # Absent => orig.at[k].val = k
           /\ orig.at["udp.max-sessions"] # Absent => orig.at["udp.max-sessions"].quote = "int"
BY FilesAssumption

(* A setting of the user's own file is worth what he wrote; an int has no  *)
(* backslashes.                                                            *)
LEMMA UserText ==
    ASSUME orig \in UserFiles, NEW k \in Keys, orig.at[k] # Absent
    PROVE  LET u == FixWindowsPaths(orig).at[k]
           IN  /\ u \in Texts /\ u # Absent /\ u.quote # "double"
               /\ u.quote = "int" <=> orig.at[k].quote = "int"
               /\ Unmarshal(u) = [val |-> k, slashes |-> orig.at[k].slashes]
               /\ orig.at[k].slashes \in Nat
               /\ orig.at[k].quote = "int" => orig.at[k].slashes = 0
<1>1. SameText(orig.at[k], FixWindowsPaths(orig).at[k])
  BY FixKeys, UserFacts
<1>2. orig.at[k].val = k
  BY UserFacts
<1>3. orig.at[k] \in Texts
  BY <1>1 DEF SameText
<1> QED BY <1>1, <1>2, <1>3 DEF SameText, Unmarshal, Texts

(* The places of a setting the user may have used, those of them that the  *)
(* migration takes, and how often a start finds a backslash of a migrated  *)
(* text: %q doubles it, and only the migrating start reads the escape.     *)
Places(s) == {k \in {s} \cup Range(FlatKeys[s]) : orig.at[k] # Absent}
Counts(s) == {k \in Places(s) : k = s \/ Usable(orig, s, k)}
Doubled == IF Old /\ ~migrated THEN 2 ELSE 1

(* What a start that parsed a whole file has for a setting of it, be it    *)
(* what the user meant or not.                                             *)
ComesTo(s, v) ==
    IF Old /\ Counts(s) # {}
    THEN /\ v.val \in Counts(s) /\ (s \in Places(s) => v.val = s)
         /\ v.slashes = Doubled * orig.at[v.val].slashes
    ELSE IF ~Old /\ s \in Places(s) THEN v = [val |-> s, slashes |-> orig.at[s].slashes]
    ELSE v = IF Old /\ s = "tcp.family-mismatch" THEN [val |-> "legacy", slashes |-> 0]
                                                 ELSE Default

(* In a text that is taken over, that is what he meant.                    *)
LEMMA TakenOverMeans ==
    ASSUME orig \in UserFiles, NEW s \in Settings, NEW v, ComesTo(s, v), TakenOver(s)
    PROVE  FileMeans(s, v)
<1>1. /\ Old => Wrote(s) = Places(s)
      /\ ~Old => Wrote(s) = {k \in {s} : orig.at[k] # Absent}
  BY DEF Wrote, Places
<1>2. CASE Old /\ Counts(s) # {}
  <2>1. v.val \in Counts(s) /\ (s \in Places(s) => v.val = s)
        /\ v.slashes = Doubled * orig.at[v.val].slashes
    BY <1>2 DEF ComesTo
  <2>2. v.val \in Wrote(s) /\ Wrote(s) # {}
    BY <1>1, <1>2, <2>1 DEF Counts
  <2>3. v.val \in Keys /\ orig.at[v.val] # Absent
    BY <2>2, KeyFacts, FlatFacts DEF Wrote
  <2>4. orig.at[v.val].slashes \in Nat
    BY <2>3, UserText
  <2>5. migrated \/ orig.at[v.val].slashes = 0
    BY <1>2, <2>2 DEF TakenOver
  <2>6. Doubled * orig.at[v.val].slashes = orig.at[v.val].slashes
    BY <2>4, <2>5 DEF Doubled
  <2> QED BY <1>1, <1>2, <2>1, <2>2, <2>6 DEF FileMeans
<1>3. CASE Old /\ Counts(s) = {}
  <2>1. Wrote(s) = {}
    BY <1>1, <1>3 DEF TakenOver, Counts
  <2> QED BY <1>3, <2>1 DEF ComesTo, FileMeans
<1>4. CASE ~Old
  BY <1>1, <1>4 DEF ComesTo, FileMeans, Places
<1> QED BY <1>2, <1>3, <1>4

(* Where a setting's migrated value comes from: its nested place if it is  *)
(* there, else a flat key of the right type, else nowhere.                 *)
LEMMA MigratedFrom ==
    ASSUME orig \in UserFiles, NEW s \in Settings
    PROVE  LET v == MigratedValue(FixWindowsPaths(orig), s)
           IN  /\ Counts(s) # {} =>
                    /\ v.val \in Counts(s) /\ (s \in Places(s) => v.val = s)
                    /\ v = [val |-> v.val, slashes |-> orig.at[v.val].slashes]
                    /\ s = "udp.max-sessions" => orig.at[v.val].quote = "int"
               /\ Counts(s) = {} =>
                    v = IF s = "tcp.family-mismatch" THEN [val |-> "legacy", slashes |-> 0]
                                                     ELSE Default
<1> DEFINE U == FixWindowsPaths(orig)
           flat == {i \in DOMAIN FlatKeys[s] : Usable(U, s, FlatKeys[s][i])}
           v == MigratedValue(U, s)
<1>1. s \in Keys /\ orig \in Files
  BY KeyFacts, UserFacts
<1>2. \A k \in Keys : U.at[k] = Absent <=> orig.at[k] = Absent
  BY <1>1, FixKeys DEF SameText
<1>3. \A k \in Keys : Usable(U, s, k) <=> Usable(orig, s, k)
  BY <1>1, <1>2, FixKeys DEF SameText, Usable
<1>4. Places(s) \subseteq Keys
  BY <1>1, FlatFacts DEF Places
<1>5. v = IF U.at[s] # Absent THEN Unmarshal(U.at[s])
          ELSE IF flat # {} THEN Unmarshal(U.at[FlatKeys[s][Min(flat)]])
          ELSE IF s = "tcp.family-mismatch" THEN [val |-> "legacy", slashes |-> 0]
          ELSE Default
  BY DEF MigratedValue
<1> HIDE DEF v
<1>6. CASE U.at[s] # Absent
  <2>1. orig.at[s] # Absent
    BY <1>1, <1>2, <1>6
  <2>2. s \in Places(s) /\ s \in Counts(s)
    BY <2>1 DEF Places, Counts
  <2>3. v = [val |-> s, slashes |-> orig.at[s].slashes]
    BY <1>1, <1>5, <1>6, <2>1, UserText
  <2>4. s = "udp.max-sessions" => orig.at[s].quote = "int"
    BY <2>1, UserFacts
  <2> QED BY <2>2, <2>3, <2>4 DEF v
<1>7. CASE U.at[s] = Absent /\ flat # {}
  <2> DEFINE k == FlatKeys[s][Min(flat)]
  <2>1. flat \in SUBSET {1, 2}
    BY FlatFacts
  <2>2. Min(flat) \in flat
    BY <1>7, <2>1, MinOfTwo
  <2>3. k \in Range(FlatKeys[s]) /\ k \in Keys /\ Usable(U, s, k)
    <3>1. PICK i \in flat : i = Min(flat)
      BY <2>2
    <3>2. i \in DOMAIN FlatKeys[s] /\ Usable(U, s, FlatKeys[s][i])
      BY <3>1
    <3>3. k = FlatKeys[s][i]
      BY <3>1
    <3> HIDE DEF k, flat
    <3> QED BY <3>2, <3>3, FlatFacts
  <2> HIDE DEF k
  <2>4. Usable(orig, s, k) /\ orig.at[k] # Absent
    BY <1>3, <2>3 DEF Usable
  <2>5. k \in Places(s) /\ k \in Counts(s)
    BY <2>3, <2>4 DEF Places, Counts
  <2>6. v = [val |-> k, slashes |-> orig.at[k].slashes]
    BY <1>5, <1>7, <2>3, <2>4, UserText DEF k
  <2>7. s = "udp.max-sessions" => orig.at[k].quote = "int"
    BY <2>4 DEF Usable
  <2>8. s \notin Places(s)
    BY <1>1, <1>2, <1>7 DEF Places
  <2> QED BY <2>5, <2>6, <2>7, <2>8 DEF v
<1>8. CASE U.at[s] = Absent /\ flat = {}
  <2>1. s \notin Places(s)
    BY <1>1, <1>2, <1>8 DEF Places
  <2>2. ASSUME NEW k \in Counts(s) PROVE FALSE
    <3>1. k \in Places(s) /\ k # s /\ Usable(orig, s, k)
      BY <2>1, <2>2 DEF Counts
    <3>2. PICK i \in DOMAIN FlatKeys[s] : k = FlatKeys[s][i]
      BY <3>1, FlatFacts DEF Places
    <3>3. Usable(U, s, FlatKeys[s][i])
      BY <1>3, <1>4, <3>1, <3>2
    <3> QED BY <1>8, <3>3
  <2> QED BY <1>5, <1>8, <2>2 DEF v
<1> QED BY <1>6, <1>7, <1>8

(* The migrated file, setting by setting: absent is only an empty list,    *)
(* everything else is written so that it is read back as it was, with its  *)
(* backslashes doubled once the quotes are single.                         *)
Migrated == GenerateMigratedConfig(FixWindowsPaths(orig))

WrittenAs(s, v, t) ==
    /\ v.val \in Keys \cup {"default", "legacy"} /\ v.slashes \in Nat
    /\ t \in Texts \cup {Absent}
    /\ t = Absent => s # "tcp.family-mismatch" /\ Counts(s) = {}
    /\ t # Absent => /\ Unmarshal(t) = v
                     /\ t.val = v.val /\ t.slashes = 2 * v.slashes

LEMMA MigratedText ==
    ASSUME orig \in UserFiles, NEW s \in Settings
    PROVE  WrittenAs(s, MigratedValue(FixWindowsPaths(orig), s), Migrated.at[s])
<1> DEFINE v == MigratedValue(FixWindowsPaths(orig), s)
           t == Migrated.at[s]
<1> SUFFICES WrittenAs(s, v, t)
  OBVIOUS
<1>1. s \in Keys /\ Counts(s) \subseteq Places(s) /\ Places(s) \subseteq Keys
  BY KeyFacts, FlatFacts DEF Counts, Places
<1>2. \A k \in Counts(s) : orig.at[k] # Absent
  BY <1>1 DEF Places, Counts
<1>3. /\ v.val \in Keys \cup {"default", "legacy"} /\ v.slashes \in Nat
      /\ v = [val |-> v.val, slashes |-> v.slashes]
      /\ s = "udp.max-sessions" => v.slashes = 0
  <2>1. CASE Counts(s) # {}
    <3>1. /\ v.val \in Counts(s)
          /\ v = [val |-> v.val, slashes |-> orig.at[v.val].slashes]
          /\ s = "udp.max-sessions" => orig.at[v.val].quote = "int"
      BY <2>1, MigratedFrom
    <3> HIDE DEF v
    <3>2. v.val \in Keys /\ orig.at[v.val] # Absent
      BY <1>1, <1>2, <3>1
    <3>3. v.slashes = orig.at[v.val].slashes
      BY <3>1
    <3>4. /\ orig.at[v.val].slashes \in Nat
          /\ orig.at[v.val].quote = "int" => orig.at[v.val].slashes = 0
      BY <3>2, UserText
    <3> QED BY <3>1, <3>2, <3>3, <3>4
  <2>2. CASE Counts(s) = {}
    <3>1. v = IF s = "tcp.family-mismatch" THEN [val |-> "legacy", slashes |-> 0]
                                           ELSE Default
      BY <2>2, MigratedFrom
    <3> HIDE DEF v
    <3> QED BY <3>1 DEF Default
  <2> QED BY <2>1, <2>2
<1>4. t = IF s = "trusted-networks" /\ FixWindowsPaths(orig).at[s] = Absent THEN Absent
          ELSE WriteField(s, v)
  BY <1>1 DEF Migrated, GenerateMigratedConfig
<1> HIDE DEF v, t
<1>5. CASE s = "trusted-networks" /\ FixWindowsPaths(orig).at[s] = Absent
  <2>1. orig.at[s] = Absent
    BY <1>1, <1>5, FixKeys, UserFacts DEF SameText
  <2>2. Counts(s) = {}
    BY <1>5, <2>1, FlatFacts DEF Counts, Places
  <2>3. t = Absent /\ s # "tcp.family-mismatch"
    BY <1>4, <1>5
  <2> QED BY <1>3, <2>2, <2>3 DEF WrittenAs
<1>6. CASE ~(s = "trusted-networks" /\ FixWindowsPaths(orig).at[s] = Absent)
  <2> DEFINE q == IF s = "udp.max-sessions" THEN "int" ELSE "double"
  <2>1. t = [val |-> v.val, quote |-> q, slashes |-> 2 * v.slashes]
    BY <1>4, <1>6 DEF WriteField
  <2>2. q \in {"int", "double"} /\ (q = "int" => v.slashes = 0)
    BY <1>3
  <2> HIDE DEF q
  <2>3. t.val = v.val /\ t.quote = q /\ t.slashes = 2 * v.slashes
    BY <2>1
  <2>4. 2 * v.slashes \in Nat /\ (2 * v.slashes) \div 2 = v.slashes
    BY <1>3
  <2>5. t \in Texts
    BY <1>3, <2>1, <2>2, <2>4 DEF Texts
  <2>6. Unmarshal(t) = [val |-> v.val, slashes |-> v.slashes]
    BY <1>3, <2>2, <2>3, <2>4 DEF Unmarshal
  <2>7. t # Absent
    BY <1>3, <2>3, KeyFacts DEF Absent
  <2> QED BY <1>3, <2>3, <2>5, <2>6, <2>7 DEF WrittenAs
<1> QED BY <1>5, <1>6

LEMMA MigratedFiles ==
    ASSUME orig \in UserFiles
    PROVE  /\ Migrated \in Files /\ Migrated.whole /\ Migrated.version = CurrentVersion
           /\ Unmarshal(FixWindowsPaths(Migrated).at["unknown"])
                = Unmarshal(FixWindowsPaths(orig).at["unknown"])
<1> DEFINE U == FixWindowsPaths(orig)
           at == [k \in Keys |->
                    IF k \in Settings
                    THEN IF k = "trusted-networks" /\ U.at[k] = Absent THEN Absent
                         ELSE WriteField(k, MigratedValue(U, k))
                    ELSE IF k = "unknown" /\ U.at[k] # Absent THEN [U.at[k] EXCEPT !.quote = "plain"]
                    ELSE Absent]
           u == U.at["unknown"]
           t == Migrated.at["unknown"]
<1>1. Migrated = [whole |-> TRUE, version |-> CurrentVersion, at |-> at]
  BY DEF Migrated, GenerateMigratedConfig
<1>2. /\ Migrated.whole /\ Migrated.version = CurrentVersion
      /\ at = [k \in Keys |-> Migrated.at[k]]
  BY <1>1
<1>3. u \in Texts \cup {Absent} /\ (u \in Texts <=> u # Absent) /\ u.quote # "double"
  BY KeyFacts, UserFacts, FixFiles, FixKeys DEF SameText
<1>4. t = IF u # Absent THEN [u EXCEPT !.quote = "plain"] ELSE Absent
  BY <1>1, KeyFacts
<1>5. ASSUME NEW k \in Keys PROVE Migrated.at[k] \in Texts \cup {Absent}
  <2>1. CASE k \in Settings
    BY <2>1, MigratedText DEF WrittenAs
  <2>2. CASE k = "unknown"
    <3> HIDE DEF u, t
    <3>1. t \in Texts \cup {Absent}
      BY <1>3, <1>4 DEF Texts
    <3> QED BY <2>2, <3>1 DEF t
  <2>3. CASE k \notin Settings /\ k # "unknown"
    BY <1>1, <2>3
  <2> QED BY <2>1, <2>2, <2>3
<1> HIDE DEF at
<1>6. at \in [Keys -> Texts \cup {Absent}]
  BY <1>2, <1>5
<1>7. Migrated \in Files
  <2>1. CurrentVersion \in Nat
    BY DEF CurrentVersion
  <2> QED BY <1>1, <1>6, <2>1 DEF Files
<1>8. Unmarshal(FixWindowsPaths(Migrated).at["unknown"]) = Unmarshal(u)
  <2> DEFINE w == FixWindowsPaths(Migrated).at["unknown"]
  <2>1. SameText(t, w)
    BY <1>7, KeyFacts, FixKeys
  <2> HIDE DEF u, t, w
  <2>2. CASE u = Absent
    <3>1. w = u
      BY <1>4, <2>1, <2>2 DEF SameText
    <3> QED BY <3>1 DEF w
  <2>3. CASE u # Absent
    <3>1. /\ t.val = u.val /\ t.slashes = u.slashes
      BY <1>3, <1>4, <2>3 DEF Texts
    <3>2. Unmarshal(w) = Unmarshal(u)
      BY <1>3, <2>1, <3>1 DEF SameText, Unmarshal
    <3> QED BY <3>2 DEF w
  <2> QED BY <2>2, <2>3
<1> QED BY <1>2, <1>7, <1>8

(* What ApplyFile takes from a parsed file, from each of the three that    *)
(* Apply can have parsed.                                                  *)
Read(f, s) == IF f.at[s] = Absent THEN Default ELSE Unmarshal(f.at[s])

LEMMA OwnMeans ==
    ASSUME orig \in UserFiles, ~Old, NEW s \in Settings
    PROVE  ComesTo(s, Read(FixWindowsPaths(orig), s))
<1>1. s \in Keys /\ SameText(orig.at[s], FixWindowsPaths(orig).at[s])
  BY KeyFacts, UserFacts, FixKeys
<1>2. s \in Places(s) <=> orig.at[s] # Absent
  BY DEF Places
<1>3. CASE orig.at[s] # Absent
  BY <1>1, <1>2, <1>3, UserText DEF Read, ComesTo, SameText
<1>4. CASE orig.at[s] = Absent
  BY <1>1, <1>2, <1>4 DEF Read, ComesTo, SameText
<1> QED BY <1>3, <1>4

(* The migrated file means n times the backslashes the user wrote.         *)
LEMMA MeansTimes ==
    ASSUME orig \in UserFiles, Old, NEW s \in Settings, NEW n \in {1, 2}, Doubled = n,
           NEW r,
           LET v == MigratedValue(FixWindowsPaths(orig), s)
           IN  IF Migrated.at[s] = Absent THEN r = Default
               ELSE r = [val |-> v.val, slashes |-> n * v.slashes]
    PROVE  ComesTo(s, r)
<1> DEFINE v == MigratedValue(FixWindowsPaths(orig), s)
<1>1. /\ v.val \in Keys \cup {"default", "legacy"} /\ v.slashes \in Nat
      /\ Migrated.at[s] = Absent => s # "tcp.family-mismatch" /\ Counts(s) = {}
  BY MigratedText DEF WrittenAs
<1>2. CASE Counts(s) # {}
  <2>1. /\ v.val \in Counts(s) /\ (s \in Places(s) => v.val = s)
        /\ v = [val |-> v.val, slashes |-> orig.at[v.val].slashes]
    BY <1>2, MigratedFrom
  <2>2. r = [val |-> v.val, slashes |-> n * v.slashes]
    BY <1>1, <1>2
  <2> HIDE DEF v
  <2>3. v.slashes = orig.at[v.val].slashes
    BY <2>1
  <2>4. r.val = v.val /\ r.slashes = Doubled * orig.at[v.val].slashes
    BY <2>2, <2>3
  <2> QED BY <1>2, <2>1, <2>4 DEF ComesTo
<1>3. CASE Counts(s) = {}
  <2>1. v = IF s = "tcp.family-mismatch" THEN [val |-> "legacy", slashes |-> 0] ELSE Default
    BY <1>3, MigratedFrom
  <2>2. r = Default \/ r = [val |-> v.val, slashes |-> n * v.slashes]
    OBVIOUS
  <2>3. s = "tcp.family-mismatch" => r = [val |-> v.val, slashes |-> n * v.slashes]
    BY <1>1
  <2> HIDE DEF v
  <2>4. r = IF s = "tcp.family-mismatch" THEN [val |-> "legacy", slashes |-> 0] ELSE Default
    <3>1. CASE s = "tcp.family-mismatch"
      <4>1. v.val = "legacy" /\ v.slashes = 0 /\ n * v.slashes = 0
        BY <2>1, <3>1
      <4> QED BY <2>3, <3>1, <4>1
    <3>2. CASE s # "tcp.family-mismatch"
      <4>1. v.val = "default" /\ v.slashes = 0 /\ n * v.slashes = 0
        BY <2>1, <3>2 DEF Default
      <4> QED BY <2>2, <3>2, <4>1 DEF Default
    <3> QED BY <3>1, <3>2
  <2> QED BY <1>3, <2>4 DEF ComesTo
<1> QED BY <1>2, <1>3

LEMMA MigratedMeans ==
    ASSUME orig \in UserFiles, Old, NEW s \in Settings
    PROVE  /\ migrated => ComesTo(s, Read(Migrated, s))
           /\ ~migrated => ComesTo(s, Read(FixWindowsPaths(Migrated), s))
<1> DEFINE v == MigratedValue(FixWindowsPaths(orig), s)
           t == Migrated.at[s]
           u == FixWindowsPaths(Migrated).at[s]
<1>1. WrittenAs(s, v, t)
  BY MigratedText
<1>2. SameText(t, u)
  BY KeyFacts, MigratedFiles, FixKeys
<1>3. v = [val |-> v.val, slashes |-> v.slashes]
  <2>1. CASE Counts(s) # {}
    BY <2>1, MigratedFrom
  <2>2. CASE Counts(s) = {}
    BY <2>2, MigratedFrom DEF Default
  <2> QED BY <2>1, <2>2
<1>4. ASSUME migrated PROVE ComesTo(s, Read(Migrated, s))
  <2>1. Doubled = 1
    BY <1>4 DEF Doubled
  <2>2. IF t = Absent THEN Read(Migrated, s) = Default
        ELSE Read(Migrated, s) = [val |-> v.val, slashes |-> 1 * v.slashes]
    <3> HIDE DEF v
    <3> QED BY <1>1, <1>3 DEF Read, WrittenAs
  <2> QED BY <2>1, <2>2, MeansTimes
<1>5. ASSUME ~migrated PROVE ComesTo(s, Read(FixWindowsPaths(Migrated), s))
  <2>1. Doubled = 2
    BY <1>5 DEF Doubled
  <2>2. IF t = Absent THEN Read(FixWindowsPaths(Migrated), s) = Default
        ELSE Read(FixWindowsPaths(Migrated), s) = [val |-> v.val, slashes |-> 2 * v.slashes]
    <3> HIDE DEF v
    <3> QED BY <1>1, <1>2 DEF Read, WrittenAs, SameText, Unmarshal
  <2> QED BY <2>1, <2>2, MeansTimes
<1> QED BY <1>4, <1>5

-----------------------------------------------------------------------------
(* Types.  What is in the file depends on what the migration was given,    *)
(* so this needs MigrationInv too.                                         *)

LEMMA CutFiles ==
    ASSUME NEW f \in Files, NEW n \in Nat PROVE Cut(f, n) \in Files
BY DEF Cut, Files, NoVersion

LEMMA NoFileType == NoFile \in Files
BY DEF NoFile, Files, NoVersion

Confs == [Settings -> [val : Keys \cup {"default", "legacy", "env", "flag"}, slashes : Nat]]

LEMMA ReadType ==
    ASSUME NEW f \in Files, NEW s \in Settings
    PROVE  Read(f, s) \in [val : Keys \cup {"default", "legacy"}, slashes : Nat]
<1>1. f.at[s] \in Texts \cup {Absent}
  BY KeyFacts DEF Files
<1>2. ASSUME NEW t \in Texts
      PROVE  Unmarshal(t) \in [val : Keys \cup {"default", "legacy"}, slashes : Nat]
  <2>1. t.val \in Keys \cup {"default", "legacy"} /\ t.slashes \in Nat /\ t.slashes \div 2 \in Nat
    BY DEF Texts
  <2> QED BY <2>1 DEF Unmarshal
<1>3. Default \in [val : Keys \cup {"default", "legacy"}, slashes : Nat]
  BY DEF Default
<1> QED BY <1>1, <1>2, <1>3 DEF Read

LEMMA OverlayType ==
    ASSUME conf \in Confs, NEW given, NEW src \in {"env", "flag"}
    PROVE  Overlay(given, src) \in Confs
BY DEF Overlay, Confs

LEMMA TypeOKStep == TypeOK /\ MigrationInv /\ [Next]_vars => TypeOK'
<1> SUFFICES ASSUME TypeOK, MigrationInv, [Next]_vars PROVE TypeOK'
  OBVIOUS
<1>1. /\ pc \in {"down", "backup", "write", "reread", "apply", "env", "flags", "validate", "running"}
      /\ file \in Files /\ bak \in Files /\ y \in Files /\ orig \in Files
      /\ migrated \in BOOLEAN /\ conf \in Confs
      /\ env \subseteq EnvSettings /\ flags \subseteq FlagSettings
      /\ orig \in UserFiles
  BY DEF TypeOK, Confs, MigrationInv
<1>2. CASE ReadFile
  BY <1>1, <1>2, FixFiles DEF ReadFile, disk, TypeOK, Confs
<1>3. CASE Backup
  BY <1>1, <1>3 DEF Backup, TypeOK, Confs
<1>4. CASE BackupFails
  <2>1. PICK n \in 0 .. Len(Order) : bak' = Cut(y, n)
    BY <1>4 DEF BackupFails
  <2>2. n \in Nat
    BY <2>1 DEF Order
  <2>3. bak' \in Files
    BY <1>1, <2>1, <2>2, CutFiles
  <2> QED BY <1>1, <1>4, <2>3 DEF BackupFails, TypeOK, Confs
<1>5. CASE WriteMigrated
  <2>1. file' \in Files
    BY <1>1, <1>5, MigratedFiles DEF WriteMigrated, MigrationInv, Migrated
  <2> QED BY <1>1, <1>5, <2>1 DEF WriteMigrated, TypeOK, Confs
<1>6. CASE WriteFails
  <2>1. PICK n \in 0 .. Len(Order) : file' = Cut(GenerateMigratedConfig(y), n)
    BY <1>6 DEF WriteFails
  <2>2. n \in Nat
    BY <2>1 DEF Order
  <2>3. file' \in Files
    BY <1>1, <1>6, <2>1, <2>2, CutFiles, MigratedFiles DEF WriteFails, MigrationInv, Migrated
  <2> QED BY <1>1, <1>6, <2>3 DEF WriteFails, TypeOK, Confs
<1>7. CASE Reread
  BY <1>1, <1>7 DEF Reread, disk, TypeOK, Confs
<1>8. CASE ApplyFile
  <2>1. conf' = [s \in Settings |-> Read(y, s)]
    BY <1>8 DEF ApplyFile, Read
  <2>2. conf' \in Confs
    BY <1>1, <2>1, ReadType DEF Confs
  <2> QED BY <1>1, <1>8, <2>2 DEF ApplyFile, disk, TypeOK, Confs
<1>9. CASE ApplyEnv
  BY <1>1, <1>9, OverlayType DEF ApplyEnv, disk, TypeOK, Confs
<1>10. CASE ApplyFlags
  BY <1>1, <1>10, OverlayType DEF ApplyFlags, disk, TypeOK, Confs
<1>11. CASE Validate \/ Ends
  BY <1>1, <1>11 DEF Validate, Ends, disk, TypeOK, Confs
<1>12. CASE RestoreBackup
  BY <1>1, <1>12 DEF RestoreBackup, TypeOK, Confs
<1>13. CASE Refused \/ UNCHANGED vars
  BY <1>1, <1>13 DEF Refused, vars, disk, TypeOK, Confs
<1> QED BY <1>2, <1>3, <1>4, <1>5, <1>6, <1>7, <1>8, <1>9, <1>10, <1>11, <1>12, <1>13 DEF Next

(* The state of config.Load and of the two files it keeps has its type,    *)
(* whatever is migrated, cut off or put back.                              *)
THEOREM TypeCorrect == Spec => []TypeOK
<1>1. Init => TypeOK
  <2> SUFFICES ASSUME Init PROVE TypeOK
    OBVIOUS
  <2>1. orig \in Files
    BY UserFacts DEF Init
  <2>2. conf \in Confs
    BY DEF Init, Confs, Default
  <2> QED BY <2>1, <2>2, NoFileType DEF Init, TypeOK, Confs
<1> QED BY <1>1, MigrationInvInit, MigrationInvStep, TypeOKStep, PTL DEF Spec

-----------------------------------------------------------------------------
(* TakenOverAsMeant.  A whole file is the user's own or the migrated one, and   *)
(* the migrated one only of an old user; from there on, what Apply parsed  *)
(* and what the settings in force are is fixed step by step.  Of a file    *)
(* that broke off nothing is said: it is never whole again before it is    *)
(* replaced.                                                               *)
Loading == {"apply", "env", "flags", "validate", "running"}

FileInv ==
    /\ bak.whole => Old
    /\ ~Old => file = orig
    /\ file.whole => UsersOwn(file) \/ (Old /\ file = Migrated)
    /\ pc \in {"backup", "write"} => Old
    /\ pc = "reread" => Old /\ migrated /\ file = Migrated
    /\ pc \in Loading /\ file.whole => IF Old THEN file = Migrated ELSE ~migrated

Runs(s, fromEnv, fromFlags) ==
    CASE s \in fromFlags           -> conf[s].val = "flag"
      [] s \in fromEnv \ fromFlags -> conf[s].val = "env"
      [] OTHER                     -> ComesTo(s, conf[s])

Parsed == IF ~Old THEN FixWindowsPaths(orig)
          ELSE IF migrated THEN Migrated ELSE FixWindowsPaths(Migrated)

SettingsInv ==
    file.whole =>
        /\ pc = "apply" => y = Parsed
        /\ pc = "env" => \A s \in Settings : Runs(s, {}, {})
        /\ pc = "flags" => \A s \in Settings : Runs(s, env, {})
        /\ pc \in {"validate", "running"} => \A s \in Settings : Runs(s, env, flags)

LEMMA FileInvStep == MigrationInv /\ FileInv /\ [Next]_vars => FileInv'
<1> SUFFICES ASSUME MigrationInv, FileInv, [Next]_vars PROVE FileInv'
  OBVIOUS
<1> USE DEF FileInv, Loading
<1>0. /\ orig \in UserFiles
      /\ Migrated.whole /\ Migrated.version = CurrentVersion
      /\ FixWindowsPaths(orig).version = orig.version
  BY MigratedFiles, UserFacts DEF MigrationInv, FixWindowsPaths, Files
<1>1. CASE ReadFile
  <2>1. /\ pc' = "backup" => Old
        /\ pc' = "apply" /\ file.whole => IF Old THEN file = Migrated ELSE TRUE
    <3>1. file.version < CurrentVersion => UsersOwn(file)
      BY <1>1 DEF ReadFile, MigrationInv, Touched, CurrentVersion, NoVersion
    <3>2. UsersOwn(file) => file.version = orig.version
      BY <1>0 DEF UsersOwn
    <3>3. file.version = CurrentVersion \/ file.version < CurrentVersion
      BY <1>1, <3>2, FilesAssumption, UserFacts, <1>0 DEF ReadFile, MigrationInv, Touched,
         CurrentVersion, NoVersion, Files
    <3> QED BY <1>1, <3>1, <3>2, <3>3 DEF ReadFile, Old, CurrentVersion
  <2> QED BY <1>1, <2>1 DEF ReadFile, disk, Old, UsersOwn, Migrated
<1>2. CASE Backup
  BY <1>2 DEF Backup, Old, UsersOwn, Migrated
<1>3. CASE BackupFails
  BY <1>3 DEF BackupFails, Old, UsersOwn, Migrated, Cut
<1>4. CASE WriteMigrated
  <2>1. Old /\ file' = Migrated /\ migrated' /\ bak' = bak /\ orig' = orig /\ pc' = "reread"
    BY <1>4 DEF WriteMigrated, MigrationInv, Migrated
  <2> QED BY <2>1 DEF Old, UsersOwn, Migrated
<1>5. CASE WriteFails
  <2>1. ~file'.whole /\ pc' = "down" /\ Old /\ bak' = bak /\ orig' = orig
    BY <1>5 DEF WriteFails, Cut
  <2> QED BY <2>1 DEF Old
<1>6. CASE Reread \/ ApplyFile \/ Validate
  BY <1>6 DEF Reread, ApplyFile, Validate, disk, Old, UsersOwn, Migrated
<1>7. CASE Ends
  BY <1>7 DEF Ends, disk, Old, UsersOwn, Migrated
<1>8. CASE ApplyEnv \/ ApplyFlags
  BY <1>8 DEF ApplyEnv, ApplyFlags, disk, Old, UsersOwn, Migrated
<1>9. CASE RestoreBackup
  BY <1>9 DEF RestoreBackup, MigrationInv, Saved, Old, UsersOwn, Migrated
<1>10. CASE Refused \/ UNCHANGED vars
  BY <1>10 DEF Refused, vars, disk, Old, UsersOwn, Migrated
<1> QED BY <1>1, <1>2, <1>3, <1>4, <1>5, <1>6, <1>7, <1>8, <1>9, <1>10 DEF Next

(* What a setting of the file means stays so while the user's file and the *)
(* Migrated flag stay.                                                     *)
LEMMA MeansSame ==
    ASSUME orig' = orig, migrated' = migrated, NEW s \in Settings, conf'[s] = conf[s]
    PROVE  ComesTo(s, conf[s])' <=> ComesTo(s, conf[s])
BY DEF ComesTo, Counts, Places, Usable, Old, Doubled

LEMMA OverlayMeans ==
    ASSUME orig' = orig, migrated' = migrated, NEW given, NEW src,
           conf' = Overlay(given, src), NEW s \in Settings
    PROVE  /\ s \in given => conf'[s].val = src
           /\ s \notin given => conf'[s] = conf[s] /\ (ComesTo(s, conf[s])' <=> ComesTo(s, conf[s]))
<1>1. conf'[s] = IF s \in given THEN [val |-> src, slashes |-> 0] ELSE conf[s]
  BY DEF Overlay
<1>2. s \notin given => conf'[s] = conf[s]
  BY <1>1
<1> QED BY <1>1, <1>2, MeansSame

LEMMA SettingsInvStep == MigrationInv /\ FileInv /\ SettingsInv /\ [Next]_vars => SettingsInv'
<1> SUFFICES ASSUME MigrationInv, FileInv, SettingsInv, [Next]_vars PROVE SettingsInv'
  OBVIOUS
<1>0. orig \in UserFiles
  BY DEF MigrationInv
<1>1. CASE ReadFile
  <2> SUFFICES ASSUME file.whole, pc' = "apply" PROVE y' = Parsed'
    BY <1>1 DEF ReadFile, disk, SettingsInv
  <2>1. orig' = orig /\ ~migrated' /\ y' = FixWindowsPaths(file) /\ ~(file.version < CurrentVersion)
    BY <1>1 DEF ReadFile
  <2>2. CASE Old
    <3>1. file = Migrated
      <4>1. orig.version = FixWindowsPaths(orig).version
        BY <1>0, UserFacts DEF FixWindowsPaths, Files
      <4> QED BY <2>1, <2>2, <4>1 DEF FileInv, UsersOwn, Old
    <3>2. Parsed' = FixWindowsPaths(Migrated)
      BY <2>1, <2>2 DEF Parsed, Old, Migrated
    <3> QED BY <2>1, <3>1, <3>2
  <2>3. CASE ~Old
    <3>1. file = orig
      BY <2>3 DEF FileInv
    <3>2. Parsed' = FixWindowsPaths(orig)
      BY <2>1, <2>3 DEF Parsed, Old
    <3> QED BY <2>1, <3>1, <3>2
  <2> QED BY <2>2, <2>3
<1>2. CASE Reread
  <2>1. /\ y' = file /\ pc' = "apply" /\ orig' = orig /\ migrated' = migrated
        /\ Old /\ migrated /\ file = Migrated
    BY <1>2 DEF Reread, FileInv
  <2>2. Parsed' = Migrated
    BY <2>1 DEF Parsed, Old, Migrated
  <2> QED BY <2>1, <2>2 DEF SettingsInv
<1>3. CASE ApplyFile
  <2>1. /\ file' = file /\ pc = "apply" /\ pc' = "env" /\ orig' = orig /\ migrated' = migrated
        /\ conf' = [s \in Settings |-> Read(y, s)]
    BY <1>3 DEF ApplyFile, disk, Read
  <2> SUFFICES ASSUME file.whole, NEW s \in Settings PROVE ComesTo(s, conf[s])'
    BY <2>1 DEF SettingsInv, Runs
  <2>2. y = Parsed /\ conf'[s] = Read(y, s)
    BY <2>1 DEF SettingsInv
  <2>3. ComesTo(s, Read(y, s))
    <3>1. CASE Old
      BY <1>0, <2>2, <3>1, MigratedMeans DEF Parsed
    <3>2. CASE ~Old
      BY <1>0, <2>2, <3>2, OwnMeans DEF Parsed
    <3> QED BY <3>1, <3>2
  <2> QED BY <2>1, <2>2, <2>3 DEF ComesTo, Counts, Places, Usable, Old, Doubled
<1>4. CASE ApplyEnv
  <2>1. /\ file' = file /\ pc = "env" /\ pc' = "flags" /\ orig' = orig /\ migrated' = migrated
        /\ conf' = Overlay(env', "env")
    BY <1>4 DEF ApplyEnv, disk
  <2> SUFFICES ASSUME file.whole, NEW s \in Settings PROVE Runs(s, env, {})'
    BY <2>1 DEF SettingsInv
  <2>2. ComesTo(s, conf[s])
    BY <2>1 DEF SettingsInv, Runs
  <2>3. /\ s \in env' => conf'[s].val = "env"
        /\ s \notin env' => ComesTo(s, conf[s])'
    BY <2>1, <2>2, OverlayMeans
  <2> QED BY <2>3 DEF Runs
<1>5. CASE ApplyFlags
  <2>1. /\ file' = file /\ pc = "flags" /\ pc' = "validate" /\ orig' = orig /\ migrated' = migrated
        /\ env' = env /\ conf' = Overlay(flags', "flag")
    BY <1>5 DEF ApplyFlags, disk
  <2> SUFFICES ASSUME file.whole, NEW s \in Settings PROVE Runs(s, env, flags)'
    BY <2>1 DEF SettingsInv
  <2>2. IF s \in env THEN conf[s].val = "env" ELSE ComesTo(s, conf[s])
    BY <2>1 DEF SettingsInv, Runs
  <2>3. /\ s \in flags' => conf'[s].val = "flag"
        /\ s \notin flags' => /\ conf'[s] = conf[s]
                              /\ ComesTo(s, conf[s])' <=> ComesTo(s, conf[s])
    BY <2>1, OverlayMeans
  <2> QED BY <2>1, <2>2, <2>3 DEF Runs
<1>6. CASE Validate
  <2>1. /\ file' = file /\ pc = "validate" /\ pc' = "running" /\ orig' = orig
        /\ migrated' = migrated /\ env' = env /\ flags' = flags /\ conf' = conf
    BY <1>6 DEF Validate, disk
  <2> SUFFICES ASSUME file.whole, NEW s \in Settings PROVE Runs(s, env, flags)'
    BY <2>1 DEF SettingsInv
  <2>2. Runs(s, env, flags)
    BY <2>1 DEF SettingsInv
  <2>3. ComesTo(s, conf[s])' <=> ComesTo(s, conf[s])
    BY <2>1, MeansSame
  <2> QED BY <2>1, <2>2, <2>3 DEF Runs
<1>7. CASE Backup \/ BackupFails \/ WriteMigrated \/ WriteFails \/ Ends \/ RestoreBackup
  <2>1. pc' \in {"write", "reread", "down"}
    BY <1>7 DEF Backup, BackupFails, WriteMigrated, WriteFails, Ends, RestoreBackup
  <2> QED BY <2>1 DEF SettingsInv
<1>8. CASE Refused \/ UNCHANGED vars
  <2>1. /\ file' = file /\ pc' = pc /\ orig' = orig /\ y' = y
        /\ migrated' = migrated /\ env' = env /\ flags' = flags /\ conf' = conf
    BY <1>8 DEF Refused, vars, disk
  <2>2. \A s \in Settings : ComesTo(s, conf[s])' <=> ComesTo(s, conf[s])
    BY <2>1, MeansSame
  <2>3. Parsed' = Parsed
    BY <2>1 DEF Parsed, Old, Migrated
  <2> QED BY <2>1, <2>2, <2>3 DEF SettingsInv, Runs
<1> QED BY <1>1, <1>2, <1>3, <1>4, <1>5, <1>6, <1>7, <1>8 DEF Next

(* Load, from any file a user may have written, before, with and after its *)
(* migration: a gateway that came up on a whole file runs by its flags,    *)
(* its environment, and what the user wrote, in this order, in all that    *)
(* the migration takes over (a text of the type it looks for, and free of  *)
(* backslashes after the first start), and the file still has the keys     *)
(* nobody knows.                                                           *)
THEOREM RunsByWhatIsTakenOver == Spec => []TakenOverAsMeant
<1>1. Init => FileInv /\ SettingsInv
  BY DEF Init, FileInv, SettingsInv, UsersOwn, NoFile, Loading
<1>2. MigrationInv /\ FileInv /\ SettingsInv => TakenOverAsMeant
  <2> SUFFICES ASSUME MigrationInv, FileInv, SettingsInv, pc = "running", file.whole
               PROVE  UnknownKept /\ \A s \in Settings : TakenOver(s) => Meant(s)
    BY DEF TakenOverAsMeant
  <2>1. ASSUME NEW s \in Settings, TakenOver(s) PROVE Meant(s)
    <3>1. Runs(s, env, flags)
      BY DEF SettingsInv
    <3>2. ComesTo(s, conf[s]) => FileMeans(s, conf[s])
      BY <2>1, TakenOverMeans DEF MigrationInv
    <3> QED BY <3>1, <3>2 DEF Runs, Meant
  <2>2. UnknownKept
    BY MigratedFiles DEF FileInv, MigrationInv, Loading, UnknownKept
  <2> QED BY <2>1, <2>2
<1> QED BY <1>1, <1>2, MigrationInvInit, MigrationInvStep, FileInvStep, SettingsInvStep, PTL
        DEF Spec

(* What RunsAsMeant fails on is only that: for users whose old files have  *)
(* no backslashes and the right type in every flat place, and for those    *)
(* who have current files, the migration keeps config.go:817's word.       *)
Plain(f) ==
    f.version < CurrentVersion =>
        \A s \in Settings : \A k \in {s} \cup Range(FlatKeys[s]) :
            f.at[k] # Absent => f.at[k].slashes = 0 /\ (k = s \/ Usable(f, s, k))

THEOREM PlainFilesRunAsMeant ==
    ASSUME \A f \in UserFiles : Plain(f)
    PROVE  Spec => []RunsAsMeant
<1>1. MigrationInv /\ TakenOverAsMeant => RunsAsMeant
  <2> SUFFICES ASSUME MigrationInv, TakenOverAsMeant, pc = "running", file.whole
               PROVE  UnknownKept /\ \A s \in Settings : Meant(s)
    BY DEF RunsAsMeant
  <2>1. Plain(orig)
    BY DEF MigrationInv
  <2>2. ASSUME NEW s \in Settings PROVE TakenOver(s)
    BY <2>1 DEF Plain, TakenOver, Old, Wrote
  <2> QED BY <2>2 DEF TakenOverAsMeant
<1> QED BY <1>1, MigrationInvInit, MigrationInvStep, RunsByWhatIsTakenOver, PTL DEF Spec

=============================================================================
