---------------------------- MODULE SystemConfig ----------------------------
(***************************************************************************)
(* The system configuration an administrator edits: config.toml and its    *)
(* backups (pichost-api/src/services/config.rs, the config handlers of     *)
(* routes/admin.rs) and the language taken from it at run time             *)
(* (pichost-core/src/i18n.rs).                                             *)
(*                                                                         *)
(* Handlers run in parallel and nothing locks the files.  fs::write and    *)
(* fs::copy empty the file they write before they fill it; an empty file   *)
(* is valid TOML without keys.  Of the keys that the handlers know only    *)
(* i18n.language is told apart ("lang"); "url" stands for the others, and  *)
(* "port" for keys of the file that the handlers do not write.             *)
(* load_config reads config.toml with nested(), where a section is a       *)
(* profile, so what the handlers write does not reach the configuration    *)
(* at start.                                                               *)
(***************************************************************************)
EXTENDS Naturals

CONSTANTS
    Values,
    None,
    Garbled,      \* the content of a file that is not TOML
    Given,        \* the values a body may give
    Start,        \* the language that the environment or the defaults set
    Languages,    \* the values that name a language; spellings of one are one value
    English,      \* the language that any other value, and none, stands for
    Requests,
    MaxCalls,     \* bound: calls of the handlers
    MaxTime,      \* bound: seconds
    MaxFaults     \* bound: restarts and changes of the locale files together

ASSUME ConfigBounds == MaxCalls \in Nat /\ MaxTime \in Nat /\ MaxFaults \in Nat

ASSUME ConfigValues == {Start} \cup Given \cup Languages \subseteq Values /\ None \notin Values
                       /\ English \in Languages

Known == {"url", "lang"}
Keys == Known \cup {"port"}
Contents == [Keys -> Values \cup {None}]
Empty == [k \in Keys |-> None]

ASSUME ContentsApart == None \notin Contents \cup {Garbled} /\ Garbled \notin Contents

VARIABLES
    exists,       \* is there a config.toml
    file,         \* its keys, or Garbled
    now,          \* the second
    backup,       \* backup[t]: the keys in config.toml.{t}.bak, or None
    lang,         \* the language of the global I18n
    msgs, disk,   \* the messages it has loaded, and those of the locale files
    hot,          \* what a hot check has loaded and will store, or None
    \* requests
    pc,
    body,         \* the keys given
    config,       \* SystemConfig: the keys to write
    stamp,        \* the backup written or restored
    calls, faults,
    \* history, read by no action
    old,          \* the keys an update has backed up and is to replace
    saved,        \* the last update that went undisturbed: its backup and what it replaced
    loaded,       \* a reload has taken the language from the file
    met,          \* a half-written file was read, overlaid or left behind, or a file
                  \* was overwritten that was not the one backed up and read
    again,        \* a backup was overwritten
    late          \* a reload came after another write or fell into a hot check

files    == <<exists, file, backup>>
i18n     == <<lang, msgs, disk, hot>>
requests == <<pc, body, config, stamp>>
bounds   == <<calls, faults>>
hist     == <<old, saved, loaded, met, again, late>>
vars     == <<files, now, i18n, requests, bounds, hist>>

\* Language::from_str_opt of a value that nobody has validated, or of "en" for none.
LanguageOf(v) == IF v \in Languages THEN v ELSE English

Init ==
    /\ exists \in BOOLEAN
    /\ file = [k \in Keys |-> IF exists /\ k # "lang" THEN Start ELSE None]
    /\ now = 0
    /\ backup = [t \in 0 .. MaxTime |-> None]
    /\ lang = LanguageOf(Start) /\ msgs = 0 /\ disk = 0 /\ hot = None
    /\ pc = [r \in Requests |-> "idle"]
    /\ body = [r \in Requests |-> Empty]
    /\ config = [r \in Requests |-> Empty]
    /\ stamp = [r \in Requests |-> 0]
    /\ calls = 0 /\ faults = 0
    /\ old = [r \in Requests |-> Empty]
    /\ saved = None /\ loaded = FALSE
    /\ met = FALSE /\ again = FALSE /\ late = FALSE

To(r, l) == pc' = [pc EXCEPT ![r] = l]

Begin(r, l) ==
    /\ pc[r] = "idle"
    /\ calls < MaxCalls /\ calls' = calls + 1
    /\ To(r, l)

\* The answer is sent.
Done(r) ==
    /\ To(r, "idle")
    /\ body' = [body EXCEPT ![r] = Empty]
    /\ config' = [config EXCEPT ![r] = Empty]
    /\ stamp' = [stamp EXCEPT ![r] = 0]
    /\ old' = [old EXCEPT ![r] = Empty]

\* Someone has emptied the file, or a backup, and not filled it yet.
Filling == \E q \in Requests : pc[q] \in {"fill", "fillnew", "restore"}
FillingBackup(t) == \E q \in Requests : pc[q] \in {"copy", "copyonly"} /\ stamp[q] = t

\* What a file may hold after new is written from its first byte on.  A file that
\* someone has filled since it was emptied may be longer and keep its tail: further
\* keys, or no TOML at all.
Filled(cur, new) ==
    {new} \cup (IF cur \in {Empty, new} THEN {}
               ELSE IF Garbled \in {cur, new} THEN {Garbled}
               ELSE {Garbled, [k \in Keys |-> IF new[k] = None THEN cur[k] ELSE new[k]]})

(***************************************************************************)
(* update_admin_config, backup_admin_config, restore_admin_config begin.   *)
(***************************************************************************)
\* Mutant: an update makes no backup.
UpdateStartUnsaved(r, b) ==
    /\ Begin(r, "read")
    /\ body' = [body EXCEPT ![r] = b]
    /\ old' = [old EXCEPT ![r] = IF file = Garbled THEN Empty ELSE file]
    /\ UNCHANGED <<files, now, i18n, config, stamp, faults, saved, loaded, met, again, late>>

UpdateStart(r, b) ==
    /\ Begin(r, IF exists THEN "open" ELSE "read")
    /\ body' = [body EXCEPT ![r] = b]
    /\ UNCHANGED <<files, now, i18n, config, stamp, faults, hist>>

\* A missing config.toml is written first, from the effective configuration.
BackupStart(r) ==
    /\ Begin(r, IF exists THEN "openonly" ELSE "docnew")
    /\ config' = IF exists THEN config
                 ELSE [config EXCEPT ![r] = [k \in Keys |-> IF k \in Known THEN Start ELSE None]]
    /\ UNCHANGED <<files, now, i18n, body, stamp, faults, hist>>

\* restore_config: config.toml is emptied.
RestoreStart(r, t) ==
    /\ backup[t] # None
    /\ Begin(r, "restore")
    /\ stamp' = [stamp EXCEPT ![r] = t]
    /\ exists' = TRUE /\ file' = Empty
    /\ UNCHANGED <<backup, now, i18n, body, config, faults, hist>>

(***************************************************************************)
(* backup_config: the name has the second in it.                           *)
(***************************************************************************)
BackupOpen(r) ==
    /\ pc[r] \in {"open", "openonly"}
    /\ backup' = [backup EXCEPT ![now] = Empty]
    /\ stamp' = [stamp EXCEPT ![r] = now]
    /\ To(r, IF pc[r] = "open" THEN "copy" ELSE "copyonly")
    /\ again' = (again \/ backup[now] # None)
    /\ UNCHANGED <<exists, file, now, i18n, body, config, bounds, old, saved, loaded, met,
                   late>>

BackupCopy(r) ==
    /\ pc[r] \in {"copy", "copyonly"}
    /\ \E f \in Filled(backup[stamp[r]], file) : backup' = [backup EXCEPT ![stamp[r]] = f]
    /\ met' = (met \/ Filling \/ backup[stamp[r]] # Empty)
    /\ IF pc[r] = "copy"
       THEN /\ To(r, "read")
            /\ old' = [old EXCEPT ![r] = file]
            /\ UNCHANGED <<body, config, stamp>>
       ELSE Done(r)
    /\ UNCHANGED <<exists, file, now, i18n, bounds, saved, loaded, again, late>>

(***************************************************************************)
(* The update: read_config_toml, merge, write_config_toml, reload_global.  *)
(***************************************************************************)
\* What read_config_toml gives, a parse error taken for no keys at all.
Existing == IF file = Garbled THEN Empty ELSE file

\* A key is given, or in the file, or (the language) effective.
ReadConfig(r) ==
    /\ pc[r] = "read"
    /\ config' = [config EXCEPT ![r] = [k \in Keys |->
                     IF body[r][k] # None THEN body[r][k]
                     ELSE IF k = "lang" /\ Existing[k] = None THEN Start ELSE Existing[k]]]
    /\ met' = (met \/ Filling \/ file # old[r])
    /\ To(r, "doc")
    /\ UNCHANGED <<files, now, i18n, body, stamp, bounds, old, saved, loaded, again, late>>

\* Mutant: the document is built anew.
ReadDocNew(r) ==
    /\ pc[r] \in {"doc", "docnew"}
    /\ config' = [config EXCEPT ![r]["port"] = None]
    /\ met' = (met \/ Filling \/ file # old[r])
    /\ To(r, IF pc[r] = "doc" THEN "write" ELSE "writenew")
    /\ UNCHANGED <<files, now, i18n, body, stamp, bounds, old, saved, loaded, again, late>>

\* write_config_toml reads the document again, for the keys it does not write.
ReadDoc(r) ==
    /\ pc[r] \in {"doc", "docnew"}
    /\ file # Garbled
    /\ config' = [config EXCEPT ![r]["port"] = file["port"]]
    /\ met' = (met \/ Filling \/ file # old[r])
    /\ To(r, IF pc[r] = "doc" THEN "write" ELSE "writenew")
    /\ UNCHANGED <<files, now, i18n, body, stamp, bounds, old, saved, loaded, again, late>>

\* It is no TOML: the request fails.
ReadDocFails(r) ==
    /\ pc[r] \in {"doc", "docnew"}
    /\ file = Garbled
    /\ Done(r)
    /\ UNCHANGED <<files, now, i18n, bounds, saved, loaded, met, again, late>>

\* fs::write: the file is emptied ...
WriteOpen(r) ==
    /\ pc[r] \in {"write", "writenew"}
    /\ exists' = TRUE /\ file' = Empty
    /\ To(r, IF pc[r] = "write" THEN "fill" ELSE "fillnew")
    /\ met' = (met \/ Filling \/ file # old[r])
    /\ UNCHANGED <<backup, now, i18n, body, config, stamp, bounds, old, saved, loaded, again, late>>

\* ... and filled.
WriteFill(r) ==
    /\ pc[r] \in {"fill", "fillnew"}
    /\ file' \in Filled(file, config[r])
    /\ met' = (met \/ file # Empty)
    /\ To(r, IF pc[r] = "fill" THEN "reload" ELSE "openonly")
    /\ saved' = IF pc[r] = "fill" /\ old[r] # Empty /\ ~met' /\ ~again
                THEN [stamp |-> stamp[r], keys |-> old[r]] ELSE saved
    /\ UNCHANGED <<exists, backup, now, i18n, body, config, stamp, bounds, old, loaded, again,
                   late>>

\* Mutant: the language is reloaded at the next start only.
ReloadNothing(r) ==
    /\ pc[r] = "reload"
    /\ late' = (late \/ hot # None \/ file # config[r])
    /\ loaded' = TRUE
    /\ Done(r)
    /\ UNCHANGED <<files, now, i18n, bounds, saved, met, again>>

Reload(r) ==
    /\ pc[r] = "reload"
    /\ lang' = LanguageOf(config[r]["lang"]) /\ msgs' = disk
    /\ late' = (late \/ hot # None \/ file # config[r])
    /\ loaded' = TRUE
    /\ Done(r)
    /\ UNCHANGED <<files, now, disk, hot, bounds, saved, met, again>>

(***************************************************************************)
(* The restore: config.toml is filled from the backup, read and reloaded.  *)
(***************************************************************************)
RestoreFill(r) ==
    /\ pc[r] = "restore"
    /\ file' \in Filled(file, backup[stamp[r]])
    /\ met' = (met \/ file # Empty \/ FillingBackup(stamp[r]))
    /\ To(r, "restored")
    /\ UNCHANGED <<exists, backup, now, i18n, body, config, stamp, bounds, old, saved, loaded,
                   again, late>>

\* What is found may be another request's, or half-written.
RestoreRead(r) ==
    /\ pc[r] = "restored"
    /\ config' = [config EXCEPT ![r] = Existing]
    /\ met' = (met \/ Filling)
    /\ To(r, "found")
    /\ UNCHANGED <<files, now, i18n, body, stamp, bounds, old, saved, loaded, again, late>>

RestoreReload(r) ==
    /\ pc[r] = "found"
    /\ lang' = LanguageOf(config[r]["lang"]) /\ msgs' = disk
    /\ late' = (late \/ hot # None \/ Existing # config[r])
    /\ loaded' = TRUE
    /\ Done(r)
    /\ UNCHANGED <<files, now, disk, hot, bounds, saved, met, again>>

(***************************************************************************)
(* I18n::global: every few seconds the locale files are loaded again, with *)
(* the language as it is, and stored if the messages differ.               *)
(***************************************************************************)
HotLoad ==
    /\ hot = None
    /\ disk # msgs
    /\ hot' = <<lang, disk>>
    /\ UNCHANGED <<files, now, lang, msgs, disk, requests, bounds, hist>>

HotStore ==
    /\ hot # None
    /\ lang' = hot[1] /\ msgs' = hot[2]
    /\ hot' = None
    /\ UNCHANGED <<files, now, disk, requests, bounds, hist>>

LocaleEdit ==
    /\ faults < MaxFaults /\ faults' = faults + 1
    /\ disk' = disk + 1
    /\ UNCHANGED <<files, now, lang, msgs, hot, requests, calls, hist>>

Tick ==
    /\ now < MaxTime
    /\ now' = now + 1
    /\ UNCHANGED <<files, i18n, requests, bounds, hist>>

\* The API stops, whatever it was doing, and starts again.
Restart ==
    /\ faults < MaxFaults /\ faults' = faults + 1
    /\ met' = (met \/ Filling \/ \E t \in 0 .. MaxTime : FillingBackup(t))
    /\ loaded' = FALSE
    /\ lang' = LanguageOf(Start) /\ msgs' = disk /\ hot' = None
    /\ pc' = [r \in Requests |-> "idle"]
    /\ body' = [r \in Requests |-> Empty]
    /\ config' = [r \in Requests |-> Empty]
    /\ stamp' = [r \in Requests |-> 0]
    /\ old' = [r \in Requests |-> Empty]
    /\ UNCHANGED <<files, now, disk, calls, saved, again, late>>

Bodies == {b \in [Keys -> Given \cup {None}] : b["port"] = None /\ b # Empty}

Next ==
    \/ \E r \in Requests :
          \/ \E b \in Bodies : UpdateStart(r, b)
          \/ BackupStart(r) \/ \E t \in 0 .. MaxTime : RestoreStart(r, t)
          \/ BackupOpen(r) \/ BackupCopy(r)
          \/ ReadConfig(r) \/ ReadDoc(r) \/ ReadDocFails(r)
          \/ WriteOpen(r) \/ WriteFill(r) \/ Reload(r)
          \/ RestoreFill(r) \/ RestoreRead(r) \/ RestoreReload(r)
    \/ HotLoad \/ HotStore \/ LocaleEdit \/ Tick \/ Restart

Spec == Init /\ [][Next]_vars

(***************************************************************************)
(* Properties                                                              *)
(***************************************************************************)
Labels == {"idle", "open", "openonly", "copy", "copyonly", "read", "doc", "docnew", "write",
           "writenew", "fill", "fillnew", "reload", "restore", "restored", "found"}

\* Every variable has its type, a file that is about to be filled exists, an idle
\* request has left nothing behind, and a backup is opened before it is filled.
TypeOK ==
    /\ exists \in BOOLEAN /\ file \in Contents \cup {Garbled}
    /\ now \in 0 .. MaxTime
    /\ backup \in [0 .. MaxTime -> Contents \cup {None, Garbled}]
    /\ lang \in Languages
    /\ msgs \in 0 .. MaxFaults /\ disk \in 0 .. MaxFaults
    /\ hot \in (Languages \X (0 .. MaxFaults)) \cup {None}
    /\ pc \in [Requests -> Labels]
    /\ body \in [Requests -> Contents] /\ config \in [Requests -> Contents]
    /\ stamp \in [Requests -> 0 .. MaxTime]
    /\ calls \in 0 .. MaxCalls /\ faults \in 0 .. MaxFaults
    /\ old \in [Requests -> Contents \cup {Garbled}]
    /\ saved \in [stamp : 0 .. MaxTime, keys : Contents \cup {Garbled}] \cup {None}
    /\ Filling => exists
    /\ \A r \in Requests :
          /\ pc[r] = "idle" => body[r] = Empty /\ config[r] = Empty /\ old[r] = Empty
          /\ pc[r] \in {"copy", "copyonly", "restore"} => backup[stamp[r]] # None

\* update_admin_config: a partial update never wipes other keys.  What is about to be
\* written has every key of the file it replaces, known to the handler or not, unless
\* another request has written in between or a half-written file was read.
KeysKept ==
    \A r \in Requests :
        pc[r] = "fill" /\ ~met =>
            \A k \in Keys : old[r][k] # None => config[r][k] # None

\* The backup an update has made holds what the update replaced, so restoring it undoes
\* the update, unless another backup was written in the same second or requests met as in
\* KeysKept.
UndoPossible ==
    saved # None /\ ~met /\ ~again => backup[saved.stamp] = saved.keys

\* With no request at work, the language of the process is the one the file names once an
\* update or a restore has reloaded it, English if it names none the process knows: neither
\* a hot check nor a second request has put another one there, unless it was a reload that
\* came after the next write, or within a hot check.
LanguageFollows ==
    loaded /\ ~met /\ ~late /\ (\A r \in Requests : pc[r] = "idle") =>
        lang = LanguageOf(file["lang"])

=============================================================================
