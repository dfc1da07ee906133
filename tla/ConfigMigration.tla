-------------------------- MODULE ConfigMigration --------------------------
(***************************************************************************)
(* config.Load (internal/config/config.go): the configuration file with    *)
(* its automatic migration to the current version, then the environment,   *)
(* the flags and Validate, over starts, failed writes and restarts.  One   *)
(* process at a time uses the file.                                        *)
(*                                                                         *)
(* A file is what it holds at each key path.  The settings stand for the   *)
(* ways the migration treats them: kept, a list, a string with             *)
(* backslashes, moved below tcp: or udp:, renamed, injected.               *)
(***************************************************************************)
EXTENDS Integers, Sequences, Functions, FiniteSetsExt

CONSTANTS
    UserFiles,      \* the files a user may have written
    EnvSettings,    \* the settings the environment may give
    FlagSettings    \* the settings the command line may give

\* 0 stands for a missing version; every old version is migrated alike.
CurrentVersion == 3
NoVersion == 0

Settings == {"policy", "trusted-networks", "log.file.path", "tcp.detect-timeout",
             "tcp.family-mismatch", "udp.max-sessions", "udp.header-mode"}

(* The flat keys of version 1, in the order in which they are looked up.   *)
FlatKeys == [s \in Settings |->
    CASE s = "tcp.detect-timeout" -> <<"detect-timeout">>
      [] s = "udp.max-sessions"   -> <<"max-sessions">>
      [] s = "udp.header-mode"    -> <<"udp-output", "header-mode">>
      [] OTHER                    -> <<>>]
Known == Settings \cup UNION {Range(FlatKeys[s]) : s \in Settings}
Keys  == Known \cup {"unknown"}

(* A text in the file: where its value comes from, how it is written, and  *)
(* with how many backslashes at each place where the value has some.       *)
Texts == {t \in [val : Keys \cup {"default", "legacy"},
                 quote : {"plain", "single", "double", "int"}, slashes : Nat] :
             t.quote = "int" => t.slashes = 0}
Absent  == [val |-> "absent", quote |-> "plain", slashes |-> 0]
Default == [val |-> "default", slashes |-> 0]

(* whole = FALSE: a write of the file broke off.                           *)
Files == [whole : BOOLEAN, version : Nat, at : [Keys -> Texts \cup {Absent}]]

(* A user's value is known by the place where it was written; a number     *)
(* stands where yamlFields has one, anything else is not parsed.           *)
ASSUME FilesAssumption ==
    /\ \A f \in UserFiles :
          /\ f \in Files /\ f.whole
          /\ \A k \in Keys : f.at[k] # Absent => f.at[k].val = k
          /\ f.at["udp.max-sessions"] # Absent => f.at["udp.max-sessions"].quote = "int"
    /\ EnvSettings \subseteq Settings /\ FlagSettings \subseteq Settings

VARIABLES
    pc,             \* where Load is
    file, bak,      \* config.yaml and config.yaml.bak
    y, migrated,    \* what Apply has parsed; the Migrated flag
    conf,           \* the settings in force
    env, flags,     \* what environment and command line of this start give
    orig            \* history: the file the user wrote

disk == <<file, bak>>
vars == <<pc, disk, y, migrated, conf, env, flags, orig>>

NoFile == [whole |-> FALSE, version |-> NoVersion, at |-> [k \in Keys |-> Absent]]

TypeOK ==
    /\ pc \in {"down", "backup", "write", "reread", "apply", "env", "flags",
               "validate", "running"}
    /\ {file, bak, y, orig} \subseteq Files
    /\ migrated \in BOOLEAN
    /\ conf \in [Settings -> [val : Keys \cup {"default", "legacy", "env", "flag"}, slashes : Nat]]
    /\ env \subseteq EnvSettings /\ flags \subseteq FlagSettings

Init ==
    /\ pc = "down"
    /\ orig \in UserFiles /\ file = orig /\ bak = NoFile
    /\ y = NoFile /\ migrated = FALSE
    /\ conf = [s \in Settings |-> Default]
    /\ env = {} /\ flags = {}

-----------------------------------------------------------------------------
(* Texts and values.                                                       *)

(* Double quotes become single ones, so that backslashes stay literal.     *)
FixWindowsPaths(f) ==
    [f EXCEPT !.at = [k \in Keys |->
        IF f.at[k].quote = "double" THEN [f.at[k] EXCEPT !.quote = "single"] ELSE f.at[k]]]

(* YAML: only a double-quoted scalar has escapes.                          *)
Unmarshal(t) ==
    [val |-> t.val, slashes |-> IF t.quote = "double" THEN t.slashes \div 2 ELSE t.slashes]

(* Go's %q escapes every backslash; numbers are written bare.              *)
WriteField(s, v) ==
    [val |-> v.val, quote |-> IF s = "udp.max-sessions" THEN "int" ELSE "double",
     slashes |-> 2 * v.slashes]

(* A flat key counts if it has the type its setting is asserted to have.   *)
Usable(f, s, k) ==
    f.at[k] # Absent /\ (f.at[k].quote = "int") = (s = "udp.max-sessions")

(* Faulty form: the keys of version 1 are left where they are.             *)
MigratedValue_NoFlat(f, s) ==
    IF f.at[s] # Absent THEN Unmarshal(f.at[s])
    ELSE IF s = "tcp.family-mismatch" THEN [val |-> "legacy", slashes |-> 0] ELSE Default

MigratedValue(f, s) ==
    LET flat == {i \in DOMAIN FlatKeys[s] : Usable(f, s, FlatKeys[s][i])} IN
    IF f.at[s] # Absent THEN Unmarshal(f.at[s])
    ELSE IF flat # {} THEN Unmarshal(f.at[FlatKeys[s][Min(flat)]])
    ELSE IF s = "tcp.family-mismatch" THEN [val |-> "legacy", slashes |-> 0]
    ELSE Default

(* Every setting is written out, but for an empty list; known flat keys    *)
(* are gone, unknown keys are marshalled as they were.                     *)
GenerateMigratedConfig(f) ==
    [whole |-> TRUE, version |-> CurrentVersion,
     at |-> [k \in Keys |->
        IF k \in Settings
        THEN IF k = "trusted-networks" /\ f.at[k] = Absent THEN Absent
             ELSE WriteField(k, MigratedValue(f, k))
        ELSE IF k = "unknown" /\ f.at[k] # Absent THEN [f.at[k] EXCEPT !.quote = "plain"]
        ELSE Absent]]

(* The order in which the keys follow the version in a file.               *)
Order == <<"policy", "trusted-networks", "tcp.detect-timeout", "tcp.family-mismatch",
           "udp.max-sessions", "udp.header-mode", "log.file.path", "unknown">>

(* What a failed or interrupted os.WriteFile leaves of f: nothing (n = 0), *)
(* or the version and the keys before the n-th.                            *)
Cut(f, n) ==
    [whole |-> FALSE, version |-> IF n = 0 THEN NoVersion ELSE f.version,
     at |-> [k \in Keys |-> IF \E i \in 1 .. n - 1 : Order[i] = k THEN f.at[k] ELSE Absent]]

-----------------------------------------------------------------------------
(* fileSource.Apply.                                                       *)

(* Faulty form: a file without a version is taken for an old one.          *)
ReadFile_AnyVersion ==
    /\ pc = "down" /\ file.version <= CurrentVersion
    /\ y' = FixWindowsPaths(file) /\ migrated' = FALSE
    /\ pc' = IF file.version < CurrentVersion THEN "backup" ELSE "apply"
    /\ UNCHANGED <<disk, conf, env, flags, orig>>

(* A missing or a newer version ends the start: nothing changes.           *)
ReadFile ==
    /\ pc = "down" /\ file.version # NoVersion /\ file.version <= CurrentVersion
    /\ y' = FixWindowsPaths(file) /\ migrated' = FALSE
    /\ pc' = IF file.version < CurrentVersion THEN "backup" ELSE "apply"
    /\ UNCHANGED <<disk, conf, env, flags, orig>>

Backup ==
    /\ pc = "backup" /\ pc' = "write"
    /\ bak' = y
    /\ UNCHANGED <<file, y, migrated, conf, env, flags, orig>>

(* The write returns an error, or the process dies in it.                  *)
BackupFails ==
    /\ pc = "backup" /\ pc' = "down"
    /\ \E n \in 0 .. Len(Order) : bak' = Cut(y, n)
    /\ UNCHANGED <<file, y, migrated, conf, env, flags, orig>>

WriteMigrated ==
    /\ pc = "write" /\ pc' = "reread"
    /\ file' = GenerateMigratedConfig(y) /\ migrated' = TRUE
    /\ UNCHANGED <<bak, y, conf, env, flags, orig>>

WriteFails ==
    /\ pc = "write" /\ pc' = "down"
    /\ \E n \in 0 .. Len(Order) : file' = Cut(GenerateMigratedConfig(y), n)
    /\ UNCHANGED <<bak, y, migrated, conf, env, flags, orig>>

(* The new file is parsed as it stands, without fixWindowsPaths.           *)
Reread ==
    /\ pc = "reread" /\ pc' = "apply"
    /\ y' = file
    /\ UNCHANGED <<disk, migrated, conf, env, flags, orig>>

(* Faulty form: keys the file does not have are applied too.               *)
ApplyFile_NoPresence ==
    /\ pc = "apply" /\ pc' = "env"
    /\ conf' = [s \in Settings |-> Unmarshal(y.at[s])]
    /\ UNCHANGED <<disk, y, migrated, env, flags, orig>>

ApplyFile ==
    /\ pc = "apply" /\ pc' = "env"
    /\ conf' = [s \in Settings |-> IF y.at[s] = Absent THEN Default ELSE Unmarshal(y.at[s])]
    /\ UNCHANGED <<disk, y, migrated, env, flags, orig>>

-----------------------------------------------------------------------------
(* The other sources, Validate, and the life of the process.               *)

Overlay(given, src) ==
    [s \in Settings |-> IF s \in given THEN [val |-> src, slashes |-> 0] ELSE conf[s]]

ApplyEnv ==
    /\ pc = "env" /\ pc' = "flags"
    /\ \E given \in SUBSET EnvSettings :
          env' = given /\ conf' = Overlay(given, "env")
    /\ UNCHANGED <<disk, y, migrated, flags, orig>>

ApplyFlags ==
    /\ pc = "flags" /\ pc' = "validate"
    /\ \E given \in SUBSET FlagSettings :
          flags' = given /\ conf' = Overlay(given, "flag")
    /\ UNCHANGED <<disk, y, migrated, env, orig>>

Validate ==
    /\ pc = "validate" /\ pc' = "running"
    /\ UNCHANGED <<disk, y, migrated, conf, env, flags, orig>>

(* Load fails (a value does not parse or is not valid, the file is not     *)
(* readable), or the process is killed; a gateway may also just stop.      *)
Ends ==
    /\ pc # "down" /\ pc' = "down"
    /\ UNCHANGED <<disk, y, migrated, conf, env, flags, orig>>

(* release-notes/v0.3.2.md: "re-migrate from your .bak backup".            *)
RestoreBackup ==
    /\ pc = "down" /\ bak.whole /\ file' = bak
    /\ UNCHANGED <<pc, bak, y, migrated, conf, env, flags, orig>>

(* ReadFile refuses the file: every further start ends the same way.       *)
Refused ==
    /\ pc = "down" /\ ~(file.version # NoVersion /\ file.version <= CurrentVersion)
    /\ UNCHANGED vars

Next ==
    \/ ReadFile \/ Backup \/ BackupFails \/ WriteMigrated \/ WriteFails
    \/ Reread \/ ApplyFile \/ ApplyEnv \/ ApplyFlags \/ Validate
    \/ Ends \/ RestoreBackup \/ Refused

Spec == Init /\ [][Next]_vars

-----------------------------------------------------------------------------
(* Safety.                                                                 *)

(* The places where the user wrote a setting that his version of the       *)
(* format has a place for.                                                 *)
Old == orig.version < CurrentVersion
Wrote(s) == {k \in {s} \cup (IF Old THEN Range(FlatKeys[s]) ELSE {}) : orig.at[k] # Absent}

(* f still tells a start everything the user wrote.                        *)
Tells(f) ==
    f.whole /\ \A k \in Keys :
        orig.at[k] # Absent =>
            /\ f.at[k] # Absent
            /\ Unmarshal(FixWindowsPaths(f).at[k]) = Unmarshal(FixWindowsPaths(orig).at[k])

(* README.md:322: "Migration guarantees the backup succeeds before the     *)
(* original file is written, so data is never lost on write failure."      *)
(* Whatever fails, dies or is started again in whatever order, the file or *)
(* its backup tells everything, also when the backup has been put back and *)
(* is migrated, and overwritten, once more.                                *)
NeverLost == Tells(file) \/ Tells(bak)

(* What the file means for a setting: what the user wrote, backslash by    *)
(* backslash, in its nested place before a flat one; else the default, but *)
(* an upgraded gateway keeps the legacy family handling.                   *)
FileMeans(s, v) ==
    IF Wrote(s) # {}
    THEN /\ v.val \in Wrote(s) /\ (s \in Wrote(s) => v.val = s)
         /\ v.slashes = orig.at[v.val].slashes
    ELSE v = IF Old /\ s = "tcp.family-mismatch" THEN [val |-> "legacy", slashes |-> 0]
                                                 ELSE Default

Meant(s) ==
    CASE s \in flags       -> conf[s].val = "flag"
      [] s \in env \ flags -> conf[s].val = "env"
      [] OTHER             -> FileMeans(s, conf[s])

UnknownKept ==
    Unmarshal(FixWindowsPaths(file).at["unknown"]) = Unmarshal(FixWindowsPaths(orig).at["unknown"])

(* The migration takes the text of a setting over into every start: it has *)
(* a place where the migration looks for it with the type it has there,    *)
(* and no backslashes, unless it is the migrating start that runs.         *)
TakenOver(s) ==
    Old => /\ Wrote(s) # {} => s \in Wrote(s) \/ \E k \in Wrote(s) : Usable(orig, s, k)
           /\ migrated \/ \A k \in Wrote(s) : orig.at[k].slashes = 0

(* A gateway that came up on a whole file, before, with and after the      *)
(* migration, runs by its flags, else its environment, else what the user  *)
(* wrote in whichever version's place, else the default, in every setting  *)
(* whose text is taken over, and keeps the keys nobody knows.  The other   *)
(* texts are those for which RunsAsMeant fails.                            *)
TakenOverAsMeant ==
    pc = "running" /\ file.whole => UnknownKept /\ \A s \in Settings : TakenOver(s) => Meant(s)

-----------------------------------------------------------------------------
(* What the repository says of the migration and its code does not keep.   *)

(* config.go:817, of generateMigratedConfig: "user fields (preserving      *)
(* their values)", "so the migration never silently drops user content";   *)
(* migration_test.go:83: "fields the user already set are preserved after  *)
(* migration".  Every gateway that runs from a file written to its end     *)
(* runs as its user meant it to.                                           *)
RunsAsMeant == pc = "running" /\ file.whole => UnknownKept /\ \A s \in Settings : Meant(s)

=============================================================================
