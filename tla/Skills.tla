--------------------------------- MODULE Skills ---------------------------------
(***************************************************************************)
(* The local skills of one agent: the list of agents/<name>/skills.json,   *)
(* the directories agents/<name>/skills/<skill>, and what apply_state      *)
(* makes of both on the host.  clawctl, the routes of the GUI that touch   *)
(* the control machine only, its older routes that apply at once, and the  *)
(* removal of the agent work on the same files; no lock orders them.       *)
(* The overlay catalog of the GUI is written in the same way, without a    *)
(* list.                                                                   *)
(***************************************************************************)
EXTENDS Naturals

CONSTANTS Procs,       \* commands and requests that run at once
          Names,       \* names of skills
          Catalog,     \* a skill of the overlay catalog, which no list names
          MaxCommands, \* bound: commands ever begun
          MaxFailures  \* bound: steps that fail

ASSUME SkillsAssumption == Catalog \notin Names /\ {MaxCommands, MaxFailures} \subseteq Nat

VARIABLES
  list,      \* skills.json, the desired state
  dir,       \* dir[n]: the directory of n
  tmp,       \* tmp[n]: the directory .n.tmp, from which the GUI renames
  host,      \* the skills in the subtree on the host that clawrium owns
  pc, op, name, \* of each process: its next step, command and skill
  seen,      \* seen[p]: what p read: the list it changes, or the one it applies
  calm,      \* history: no two commands overlapped, none was killed, no editor spoiled a file
  rivalled,  \* history: processes that met a rival on their skill, or one that had
  added,     \* history: skills that were added, by nobody in `rivalled`
  applied,   \* history: an apply succeeded, and no command has begun since
  commands, failures \* bounded by MaxCommands, MaxFailures

files == <<list, dir, tmp, host>>
vars == <<files, pc, op, name, seen, calm, rivalled, added, applied, commands, failures>>

All == Names \cup {Catalog}
Ops == {"add", "edit", "remove", "gui_add", "gui_edit", "gui_remove", "install", "uninstall",
        "catalog"}
Edits == {"edit", "gui_edit"}
Steps == {"idle", "check", "mkdir", "write", "read", "store", "rmtree", "tmp_clear", "tmp_mkdir",
          "tmp_write", "rename", "apply", "load", "play", "undo", "undo_read", "undo_store",
          "editor", "restore"}
\* A directory may lack its SKILL.md, or hold one that does not load.
Directories == {"absent", "empty", "bad", "ok"}

Running == {p \in Procs : pc[p] # "idle"}

TypeOK ==
  /\ list \subseteq Names /\ host \subseteq Names
  /\ dir \in [All -> Directories] /\ tmp \in [All -> {"absent", "empty", "ok"}]
  /\ pc \in [Procs -> Steps] /\ op \in [Procs -> Ops] /\ name \in [Procs -> All]
  /\ seen \in [Procs -> SUBSET Names]
  /\ {calm, applied} \subseteq BOOLEAN /\ added \subseteq All
  /\ \A p \in Running : (op[p] = "catalog") = (name[p] = Catalog)
  /\ rivalled \subseteq Procs
  /\ commands \in 0 .. MaxCommands /\ failures \in 0 .. MaxFailures

Init ==
  /\ list = {} /\ host = {}
  /\ dir = [n \in All |-> "absent"] /\ tmp = [n \in All |-> "absent"]
  /\ pc = [p \in Procs |-> "idle"] /\ op = [p \in Procs |-> "add"]
  /\ name \in [Procs -> Names] /\ \A p, q \in Procs : name[p] = name[q]
  /\ seen = [p \in Procs |-> {}]
  /\ calm = TRUE /\ rivalled = {} /\ added = {} /\ applied = FALSE
  /\ commands = 0 /\ failures = 0

At(p, s) == pc[p] = s
Go(p, s) == pc' = [pc EXCEPT ![p] = s]
Stays == UNCHANGED <<op, name, calm, rivalled, added, applied, commands>>
NoFailure == UNCHANGED failures
Fails == failures < MaxFailures /\ failures' = failures + 1
Done(p) == Go(p, "idle") /\ seen' = [seen EXCEPT ![p] = {}]

\* The preflight (names, references, materialization and validation) fails without a trace.
First == [add |-> "check", gui_add |-> "check", install |-> "check", catalog |-> "check",
          edit |-> "editor", gui_edit |-> "editor", remove |-> "read", uninstall |-> "read", gui_remove |-> "read"]
\* Which commands on one skill may undo what the other has done.
Rivals(o1, o2) == ~ {o1, o2} \subseteq {"add"} \cup Edits
Begin(p, o, n) ==
  /\ At(p, "idle") /\ commands < MaxCommands /\ commands' = commands + 1
  /\ (o = "catalog") = (n = Catalog)
  /\ o \in Edits => dir[n] \in {"bad", "ok"}
  /\ o = "gui_remove" => n \in list
  /\ Go(p, First[o])
  /\ op' = [op EXCEPT ![p] = o] /\ name' = [name EXCEPT ![p] = n]
  /\ calm' = (calm /\ Running = {})
  /\ LET rivals == {q \in Running : name[q] = n /\ (q \in rivalled \/ Rivals(o, op[q]))}
     IN rivalled' = (rivalled \ {p}) \cup rivals \cup {r \in {p} : rivals # {}}
  /\ added' = IF o \in {"remove", "gui_remove", "uninstall"} THEN added \ {n} ELSE added
  /\ applied' = FALSE
  /\ UNCHANGED <<files, seen, failures>>

Adds == {"add", "gui_add", "install"}

\* Neither the directory nor the list may know the name.
Check(p) ==
  /\ At(p, "check")
  /\ IF dir[name[p]] # "absent" \/ name[p] \in list
     THEN Done(p)
     ELSE /\ Go(p, CASE op[p] = "add" -> "mkdir" [] op[p] = "catalog" -> "tmp_clear" [] OTHER -> "read")
          /\ UNCHANGED seen
  /\ UNCHANGED files /\ NoFailure /\ Stays

\* Mutant: the loser takes the exception for any other, and cleans up.
MkdirOrUndo(p) ==
  /\ At(p, "mkdir")
  /\ IF dir[name[p]] = "absent"
     THEN dir' = [dir EXCEPT ![name[p]] = "empty"] /\ Go(p, "write") /\ UNCHANGED seen
     ELSE UNCHANGED <<dir, seen>> /\ Go(p, "undo")
  /\ UNCHANGED <<list, tmp, host>> /\ NoFailure /\ Stays
\* clawctl: mkdir decides between two of them, the loser leaves everything alone.
Mkdir(p) ==
  /\ At(p, "mkdir")
  /\ IF dir[name[p]] = "absent"
     THEN dir' = [dir EXCEPT ![name[p]] = "empty"] /\ Go(p, "write") /\ UNCHANGED seen
     ELSE UNCHANGED dir /\ Done(p)
  /\ UNCHANGED <<list, tmp, host>> /\ NoFailure /\ Stays
Write(p) ==
  /\ At(p, "write")
  /\ \/ dir[name[p]] # "absent" /\ dir' = [dir EXCEPT ![name[p]] = "ok"]
        /\ Go(p, "read") /\ NoFailure
     \/ dir[name[p]] = "absent" /\ UNCHANGED dir /\ Go(p, "undo") /\ NoFailure
     \/ UNCHANGED dir /\ Go(p, "undo") /\ Fails
  /\ UNCHANGED <<list, tmp, host, seen>> /\ Stays

\* What follows when add_skill or remove_skill has returned.
Succeeded(p) ==
  added' = IF p \in rivalled \/ op[p] \notin Adds \cup {"catalog"} THEN added ELSE added \cup {name[p]}
Follows(p) ==
  CASE op[p] = "add" -> Done(p) /\ Succeeded(p)
    [] op[p] \in {"gui_add", "install"} -> Go(p, "tmp_clear") /\ UNCHANGED <<seen, added>>
    [] OTHER -> Go(p, "rmtree") /\ UNCHANGED <<seen, added>>
\* add_skill and remove_skill: a list that needs no change is not written.
Read(p) ==
  /\ At(p, "read")
  /\ IF (name[p] \in list) = (op[p] \in Adds)
     THEN Follows(p)
     ELSE Go(p, "store") /\ seen' = [seen EXCEPT ![p] = list] /\ UNCHANGED added
  /\ UNCHANGED <<files, op, name, calm, rivalled, applied, commands>> /\ NoFailure
Changed(p) == IF op[p] \in Adds THEN seen[p] \cup {name[p]} ELSE seen[p] \ {name[p]}
Store(p) ==
  /\ At(p, "store")
  /\ \/ list' = Changed(p) /\ Follows(p) /\ NoFailure
     \/ UNCHANGED <<list, added>> /\ Fails
        /\ IF op[p] = "add" THEN Go(p, "undo") /\ UNCHANGED seen ELSE Done(p)
  /\ UNCHANGED <<dir, tmp, host, op, name, calm, rivalled, applied, commands>>
\* rmtree(ignore_errors): what it cannot remove stays.
Rmtree(p) ==
  /\ At(p, "rmtree")
  /\ \/ dir' = [dir EXCEPT ![name[p]] = "absent"] /\ NoFailure
     \/ UNCHANGED dir /\ Fails
  /\ IF op[p] = "uninstall" THEN Go(p, "apply") /\ UNCHANGED seen ELSE Done(p)
  /\ UNCHANGED <<list, tmp, host>> /\ Stays

(***************************************************************************)
(* _write_agent_local_skill, and the overlay catalog.                      *)
(***************************************************************************)
Refused(p) == IF op[p] = "catalog" THEN Done(p) ELSE Go(p, "undo") /\ UNCHANGED seen
\* The existence is tested again, by the writer.
TmpClear(p) ==
  /\ At(p, "tmp_clear")
  /\ IF op[p] # "catalog" /\ dir[name[p]] # "absent"
     THEN UNCHANGED tmp /\ Refused(p)
     ELSE tmp' = [tmp EXCEPT ![name[p]] = "absent"] /\ Go(p, "tmp_mkdir") /\ UNCHANGED seen
  /\ UNCHANGED <<list, dir, host>> /\ NoFailure /\ Stays
Leftover(p) == tmp' = IF op[p] = "catalog" THEN [tmp EXCEPT ![name[p]] = "absent"] ELSE tmp
TmpMkdir(p) ==
  /\ At(p, "tmp_mkdir")
  /\ \/ tmp[name[p]] = "absent" /\ tmp' = [tmp EXCEPT ![name[p]] = "empty"]
        /\ Go(p, "tmp_write") /\ UNCHANGED seen /\ NoFailure
     \/ tmp[name[p]] # "absent" /\ Leftover(p) /\ Refused(p) /\ NoFailure
     \/ Leftover(p) /\ Refused(p) /\ Fails
  /\ UNCHANGED <<list, dir, host>> /\ Stays
TmpWrite(p) ==
  /\ At(p, "tmp_write")
  /\ \/ tmp[name[p]] # "absent" /\ tmp' = [tmp EXCEPT ![name[p]] = "ok"]
        /\ Go(p, "rename") /\ UNCHANGED seen /\ NoFailure
     \/ tmp' = [tmp EXCEPT ![name[p]] = "absent"] /\ Refused(p)
        /\ IF tmp[name[p]] = "absent" THEN NoFailure ELSE Fails
  /\ UNCHANGED <<list, dir, host>> /\ Stays
\* rename replaces an empty directory, and none other.
Rename(p) ==
  /\ At(p, "rename")
  /\ tmp' = [tmp EXCEPT ![name[p]] = "absent"]
  /\ IF tmp[name[p]] # "absent" /\ dir[name[p]] \in {"absent", "empty"}
     THEN /\ dir' = [dir EXCEPT ![name[p]] = tmp[name[p]]]
          /\ IF op[p] = "install"
             THEN Go(p, "apply") /\ UNCHANGED <<seen, added>>
             ELSE Done(p) /\ Succeeded(p)
     ELSE UNCHANGED <<dir, added>> /\ Refused(p)
  /\ UNCHANGED <<list, host, op, name, calm, rivalled, applied, commands>> /\ NoFailure

\* _rollback_local_install, and the clean-up of clawctl, which has not touched the list.
Undo(p) ==
  /\ At(p, "undo")
  /\ dir' = [dir EXCEPT ![name[p]] = "absent"]
  /\ IF op[p] = "add" THEN Done(p) ELSE Go(p, "undo_read") /\ UNCHANGED seen
  /\ UNCHANGED <<list, tmp, host>> /\ NoFailure /\ Stays
UndoRead(p) ==
  /\ At(p, "undo_read")
  /\ IF name[p] \in list
     THEN Go(p, "undo_store") /\ seen' = [seen EXCEPT ![p] = list]
     ELSE Done(p)
  /\ UNCHANGED files /\ NoFailure /\ Stays
UndoStore(p) ==
  /\ At(p, "undo_store")
  /\ \/ list' = seen[p] \ {name[p]} /\ NoFailure
     \/ UNCHANGED list /\ Fails
  /\ Done(p)
  /\ UNCHANGED <<dir, tmp, host>> /\ Stays

(***************************************************************************)
(* `skill edit`: the editor works on the file itself; what does not load   *)
(* is undone, unless the editor failed.  The GUI tests first, and then     *)
(* replaces the file.                                                      *)
(***************************************************************************)
Editor(p) ==
  /\ At(p, "editor")
  /\ \/ dir[name[p]] # "absent"
        /\ \/ dir' = [dir EXCEPT ![name[p]] = "ok"] /\ Done(p) /\ UNCHANGED calm
           \/ /\ op[p] = "edit" /\ dir' = [dir EXCEPT ![name[p]] = "bad"]
              /\ \/ Go(p, "restore") /\ UNCHANGED <<seen, calm>>
                 \/ Done(p) /\ calm' = FALSE
     \/ UNCHANGED <<dir, calm>> /\ Done(p)
  /\ UNCHANGED <<list, tmp, host, op, name, rivalled, added, applied, commands>> /\ NoFailure
Restore(p) ==
  /\ At(p, "restore")
  /\ dir' = IF dir[name[p]] = "absent" THEN dir ELSE [dir EXCEPT ![name[p]] = "ok"]
  /\ Done(p)
  /\ UNCHANGED <<list, tmp, host>> /\ NoFailure /\ Stays

(***************************************************************************)
(* apply_state: the list is read, every skill on it loaded and staged, and *)
(* only then is the host touched.                                          *)
(***************************************************************************)
Apply(p) ==
  /\ At(p, "apply") /\ Go(p, "load") /\ seen' = [seen EXCEPT ![p] = list]
  /\ UNCHANGED files /\ NoFailure /\ Stays
NotApplied(p) == IF op[p] = "install" THEN Go(p, "undo") /\ UNCHANGED seen ELSE Done(p)
Loads(n) == dir[n] = "ok"
Load(p) ==
  /\ At(p, "load")
  /\ \/ (\A n \in seen[p] : Loads(n)) /\ Go(p, "play") /\ UNCHANGED seen /\ NoFailure
     \/ (\E n \in seen[p] : ~ Loads(n)) /\ NotApplied(p) /\ NoFailure
     \/ (NotApplied(p) \/ Done(p)) /\ Fails
  /\ UNCHANGED files /\ Stays
\* The playbook prunes, then copies one skill after the other.
Play(p) ==
  /\ At(p, "play")
  /\ \/ /\ host' = seen[p] /\ Done(p) /\ NoFailure
        /\ applied' = (Running = {p}) /\ Succeeded(p)
     \/ /\ \/ host' \in {h \in SUBSET host : host \cap seen[p] \subseteq h}
           \/ host' \in {h \in SUBSET seen[p] : host \cap seen[p] \subseteq h}
        /\ NotApplied(p) /\ Fails /\ UNCHANGED <<applied, added>>
  /\ UNCHANGED <<list, dir, tmp, op, name, calm, rivalled, commands>>

\* A command dies between two steps.
Killed(p) ==
  /\ ~ At(p, "idle") /\ Done(p) /\ calm' = FALSE
  /\ UNCHANGED <<files, op, name, rivalled, added, applied, commands, failures>>

\* remove_agent: cleanup_agent_state, which may fail softly, and the account on the host.
RemoveAgent ==
  /\ commands < MaxCommands /\ commands' = commands + 1
  /\ \/ list' = {} /\ dir' = [n \in All |-> IF n \in Names THEN "absent" ELSE dir[n]] /\ NoFailure
     \/ UNCHANGED <<list, dir>> /\ Fails
  /\ tmp' = tmp /\ host' = {}
  /\ calm' = (calm /\ Running = {}) /\ rivalled' = rivalled \cup Running
  /\ added' = added \ Names /\ applied' = FALSE
  /\ UNCHANGED <<pc, op, name, seen>>

Next ==
  \/ \E p \in Procs :
       \/ \E o \in Ops, n \in All : Begin(p, o, n)
       \/ Check(p) \/ Mkdir(p) \/ Write(p) \/ Read(p) \/ Store(p) \/ Rmtree(p)
       \/ TmpClear(p) \/ TmpMkdir(p) \/ TmpWrite(p) \/ Rename(p)
       \/ Undo(p) \/ UndoRead(p) \/ UndoStore(p)
       \/ Editor(p) \/ Restore(p)
       \/ Apply(p) \/ Load(p) \/ Play(p) \/ Killed(p)
  \/ RemoveAgent

Spec == Init /\ [][Next]_vars

(***************************************************************************)
(* Properties.                                                             *)
(***************************************************************************)
\* Commands that ran one after the other, whichever one step of them failed, leave no name
\* on the list without a skill that loads (one such name makes every later apply fail), and
\* after an apply the host has what is on the list.
Agrees ==
  calm /\ failures <= 1 /\ Running = {} =>
    /\ \A n \in list : dir[n] = "ok"
    /\ applied => host = list

\* What an addition has reported stays, whoever adds the same name at the same time, until
\* somebody removes it.
AddedStays == \A n \in added : dir[n] \in {"bad", "ok"}
=============================================================================
