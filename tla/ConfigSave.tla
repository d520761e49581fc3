----------------------------- MODULE ConfigSave -----------------------------
(***************************************************************************)
(* Saving the configuration file (config.rs, save_checked).  The new text  *)
(* is staged in a file of its own, the old one backed up, the destination  *)
(* looked at again and then replaced in one operation of the directory,    *)
(* which is synced last, where the program is built for Unix.              *)
(*                                                                         *)
(* Several processes may save to one destination; each step may fail, a    *)
(* process may be killed and the power may fail between any two steps.     *)
(*                                                                         *)
(* Abstractions.  A text is a model value.  Staged files and backups have  *)
(* names nobody else uses: a staged file left behind is forgotten, and a   *)
(* backup is there once it is written and synced.  The file system is      *)
(* external: a power failure undoes the last operations on the directory,  *)
(* back to its last sync at most, and tears a file that was not synced.    *)
(* References that cannot be moved and a destination that is no regular    *)
(* file are left out: the save is refused.                                 *)
(***************************************************************************)
CONSTANTS
  Savers,   \* the processes
  Texts,    \* the texts each of them may save
  FirstText,\* the text there is at first
  Syncs     \* whether the build syncs the directory: TRUE on Unix, FALSE elsewhere

VARIABLES
  dest,     \* the text of the destination: Absent, a text, or Torn
  synced,   \* the file at the destination is synced
  backups,  \* the texts of the backups
  past,     \* the directory as it was at each moment since its last sync
  saver,    \* a save: the step it is at, its text, what it has read, whether its staged
            \* file is synced; history: a replacement came after its last look
  kept,     \* history: the first text, and those of saves that returned
  unsure,   \* history: those that a power failure may still take: the save returned and
            \* the directory was not synced since the text came
  undone,   \* history: those that a power failure took
  raced     \* history: texts that came after the last look of the save they lost to

files == <<dest, synced, backups>>
returns == <<kept, unsure, undone>>
vars == <<files, past, saver, returns, raced>>

Absent == "absent"
Torn == "torn"
\* A text is neither of the two.
TextsAssumption ==
  /\ Syncs \subseteq BOOLEAN
  /\ FirstText \notin {Absent, Torn}
  /\ \A s \in Savers : Texts[s] \cap {Absent, Torn} = {}

Idle == [at |-> "idle", text |-> Absent, loaded |-> Absent, previous |-> Absent,
         staged |-> FALSE, late |-> FALSE]

At(s, step) == saver[s].at = step
Goes(s, from, to) == At(s, from) /\ saver' = [saver EXCEPT ![s].at = to]
Ends(s) == saver' = [saver EXCEPT ![s] = Idle]
\* An operation on the directory, undone by a power failure until it is synced.
Enters == past' = past \cup {files'}

\* The text is there whatever a power failure brings back.
Durable(text) == \A before \in past : text \in before[3] \cup {before[1]}
\* A save returns without the directory having been synced by it.
Returned(text) ==
  /\ kept' = kept \cup {text}
  /\ unsure' = IF Durable(text) THEN unsure ELSE unsure \cup {text}
  /\ undone' = undone \ {text}
-----------------------------------------------------------------------------
\* The configuration is loaded from the destination or elsewhere, and edited.
Load(s, text) ==
  /\ At(s, "idle")
  /\ \E from \in {dest, Absent} :
       saver' = [saver EXCEPT ![s] = [Idle EXCEPT !.at = "look", !.text = text, !.loaded = from]]
  /\ UNCHANGED <<files, past, returns, raced>>

\* The save is refused when the file it has loaded has changed since.  When the text is
\* there already it returns at once: nothing is written, and nothing synced.
Look(s) ==
  /\ At(s, "look")
  /\ IF saver[s].loaded \notin {dest, Absent} THEN Ends(s) /\ UNCHANGED returns
     ELSE IF dest = saver[s].text THEN Ends(s) /\ Returned(dest)
     ELSE /\ saver' = [saver EXCEPT ![s].at = "stage", ![s].previous = dest]
          /\ UNCHANGED returns
  /\ UNCHANGED <<files, past, raced>>

Staged(s, sync) ==
  /\ At(s, "stage")
  /\ saver' = [saver EXCEPT ![s].at = "backup", ![s].staged = sync]
  /\ UNCHANGED <<files, past, returns, raced>>

\* Mutant: the staged file is not synced.
Stage_Unsynced(s) == Staged(s, FALSE)

\* The text is written to the staged file, which is synced.
Stage(s) == Staged(s, TRUE)

\* What was read, not the destination, is backed up, if there was anything.
Backup(s) ==
  /\ Goes(s, "backup", "check")
  /\ backups' = backups \cup ({saver[s].previous} \ {Absent})
  /\ UNCHANGED <<dest, synced, returns, raced>>
  /\ Enters

\* The destination is looked at again.
Check(s) ==
  /\ At(s, "check")
  /\ IF dest = saver[s].previous THEN Goes(s, "check", "replace") ELSE Ends(s)
  /\ UNCHANGED <<files, past, returns, raced>>

\* The staged file takes the name of the destination.
Replaced(s) ==
  /\ saver' = [t \in Savers |-> IF t = s THEN [saver[s] EXCEPT !.at = "verify"]
                               ELSE [saver[t] EXCEPT !.late = At(t, "replace")]]
  /\ dest' = saver[s].text /\ synced' = saver[s].staged /\ backups' = backups
  /\ Enters

\* A new file is linked, which fails when there is one by now.
Link(s) ==
  /\ At(s, "replace") /\ saver[s].previous = Absent
  /\ IF dest = Absent THEN Replaced(s) ELSE Ends(s) /\ UNCHANGED <<files, past>>
  /\ UNCHANGED <<returns, raced>>

\* Another is renamed over the one there is, were it no longer the one of the check.
Rename(s) ==
  /\ At(s, "replace") /\ saver[s].previous # Absent
  /\ Replaced(s)
  /\ raced' = IF saver[s].late THEN raced \cup {dest} ELSE raced
  /\ UNCHANGED returns

Verify(s) ==
  /\ At(s, "verify")
  /\ IF dest = saver[s].text THEN Goes(s, "verify", "sync") ELSE Ends(s)
  /\ UNCHANGED <<files, past, returns, raced>>

\* The directory is synced and the save returns,
Sync(s) ==
  /\ At(s, "sync") /\ TRUE \in Syncs /\ Ends(s)
  /\ past' = {files}
  /\ kept' = kept \cup {saver[s].text}
  /\ unsure' = {} /\ undone' = undone \ {saver[s].text}
  /\ UNCHANGED <<files, raced>>

\* or it returns without: the sync is compiled for Unix only.
Return(s) ==
  /\ At(s, "sync") /\ FALSE \in Syncs /\ Ends(s)
  /\ Returned(saver[s].text)
  /\ UNCHANGED <<files, past, raced>>

\* A step fails, or the process is killed; what it has done stays.
Fail(s) ==
  /\ ~At(s, "idle") /\ Ends(s)
  /\ UNCHANGED <<files, past, returns, raced>>

PowerFails ==
  /\ saver' = [s \in Savers |-> Idle]
  /\ \E before \in past :
       /\ dest' = IF before[2] \/ before[1] = Absent THEN before[1] ELSE Torn
       /\ synced' = TRUE
       /\ backups' = before[3]
  /\ past' = {files'}
  /\ undone' = undone \cup (unsure \ (backups' \cup {dest'}))
  /\ unsure' = {}
  /\ UNCHANGED <<kept, raced>>
-----------------------------------------------------------------------------
Init ==
  /\ dest \in {Absent, FirstText}
  /\ synced = TRUE /\ backups = {} /\ past = {files}
  /\ saver = [s \in Savers |-> Idle]
  /\ kept = {dest} \ {Absent} /\ unsure = {} /\ undone = {} /\ raced = {}

Next ==
  \/ PowerFails
  \/ \E s \in Savers :
       \/ \E text \in Texts[s] : Load(s, text)
       \/ Look(s) \/ Stage(s) \/ Backup(s) \/ Check(s) \/ Link(s) \/ Rename(s)
       \/ Verify(s) \/ Sync(s) \/ Return(s) \/ Fail(s)

Spec == Init /\ [][Next]_vars
-----------------------------------------------------------------------------
\* The destination never holds half a text, and the first text and that of every save
\* that returned, a save that found its text there included, is still there, in the
\* destination or in a backup, after any failure of a step, a process or the power, and
\* whoever else saves.  Two cases are left: a text that came between the last look at
\* the destination and its replacement, and one that a power failure took because the
\* directory was not synced between the text and the failure, although a save of it had
\* returned: it had found a text there that another save, which failed later or was not
\* done yet, had not synced, or the build does not sync.
SavedKept == dest # Torn /\ kept \subseteq backups \cup {dest} \cup raced \cup undone

\* A save replaces only the text that its own was edited from, unless that was loaded
\* from elsewhere or the text came after the last look.
NothingOverwrittenBlindly ==
  [][\A s \in Savers :
       dest' # dest /\ At(s, "replace") /\ saver'[s].at = "verify" =>
         saver[s].loaded \in {Absent, dest} \/ dest \in raced']_vars

\* No step of a save, no crash and no failure of the power loses a text but in the cases
\* named, nor does a save replace what it has not seen: both of them.
SavesKept == [][SavedKept']_vars /\ NothingOverwrittenBlindly
=============================================================================
