--------------------------- MODULE VerifyPipeline ---------------------------
(* Invocations of cargo verify, one after the other, on a workspace that is *)
(* edited between them: Charon writes a file per crate, the files are read  *)
(* back, each crate is translated to WhyML, and why3 is run on each.  What  *)
(* goes from one stage to the next goes through a directory, the user's,    *)
(* where the files of former invocations are, or a temporary one.           *)
(*                                                                          *)
(* Of a crate's sources only matters who they are of and how far they come: *)
(* Charon rejects them, their contracts are unsupported in WhyML, why3 does *)
(* not prove them, or they are fine.                                        *)
EXTENDS Naturals, FiniteSets, Functions

CONSTANTS Targets,    \* the libraries and binaries of the workspace
          CrateName,  \* of each target
          MaxEdits    \* how often the user changes the sources

ASSUME ConstantsAssumption == DOMAIN CrateName = Targets /\ MaxEdits \in Nat

Kinds == {"rejected", "unsupported", "unproved", "fine"}
Sources == [target : Targets, edit : 0 .. MaxEdits, kind : Kinds]
NameOf(source) == CrateName[source.target]

VARIABLES
    workspace,   \* the sources of each of its targets
    edits,       \* how many edits there were
    pc,          \* what runs, "idle" between invocations
    exit,        \* how the last invocation ended, if nothing was edited since
    selected,    \* the targets that cargo's arguments select
    todo,        \* what this stage has still to handle: targets or crate names
    charon_dir,  \* "user" or "temp"
    why3_dir,    \* "user" or "temp"
    llbc,        \* the files in Charon's output directories: sources by name
    crates,      \* the crates read from there
    mlw,         \* the files in the why3 output directories
    tuple,       \* what tuple.mlw has accessors for, there
    tuple_field_accesses,
    temps,       \* the last invocation's temporary directories that exist
    reported     \* what "Verified" was said of

vars == <<workspace, edits, pc, exit, selected, todo, charon_dir, why3_dir, llbc, crates,
          mlw, tuple, tuple_field_accesses, temps, reported>>

Dirs == {"user", "temp"}
Empty == <<>>
Truncated(t) == [target |-> t, edit |-> 0, kind |-> "truncated"]
With(files, name, content) == [n \in DOMAIN files \union {name} |->
                                 IF n = name THEN content ELSE files[n]]

Init == /\ workspace \in [Targets -> {s \in Sources : s.edit = 0}]
        /\ \A t \in Targets : workspace[t].target = t
        /\ edits = 0
        /\ pc = "idle"
        /\ exit = "none"
        /\ selected = {}
        /\ todo = {}
        /\ charon_dir = "temp"
        /\ why3_dir = "temp"
        /\ llbc = [d \in Dirs |-> Empty]
        /\ crates = Empty
        /\ mlw = [d \in Dirs |-> Empty]
        /\ tuple = [d \in Dirs |-> {}]
        /\ tuple_field_accesses = {}
        /\ temps = {}
        /\ reported = {}

files == <<llbc, mlw, tuple>>
run == <<selected, charon_dir, why3_dir>>

-----------------------------------------------------------------------------
(* The user *)

Edit(t) == /\ pc = "idle"
           /\ edits < MaxEdits
           /\ edits' = edits + 1
           /\ exit' = "none"
           /\ \/ \E kind \in Kinds :
                   workspace' = With(workspace, t, [target |-> t, edit |-> edits + 1, kind |-> kind])
              \/ /\ t \in DOMAIN workspace
                 /\ workspace' = Restrict(workspace, DOMAIN workspace \ {t})
           /\ UNCHANGED <<pc, run, todo, files, crates, tuple_field_accesses, temps, reported>>

\* A copy of one of the files in the user's own directory.
Backup(n) == /\ pc = "idle"
             /\ n \in DOMAIN llbc["user"] \ {"backup"}
             /\ llbc' = [llbc EXCEPT !["user"] = With(@, "backup", @[n])]
             /\ UNCHANGED <<workspace, edits, pc, exit, run, todo, crates, mlw, tuple,
                            tuple_field_accesses, temps, reported>>

-----------------------------------------------------------------------------
(* How an invocation ends *)

Ends(how) == /\ pc' = "idle"
             /\ exit' = how
             /\ todo' = {}
             /\ crates' = Empty
             /\ tuple_field_accesses' = {}

\* run_with_dir with a temporary directory deletes it behind the stage,
\* whether that failed or not; that it cannot be deleted is an error as well.
CloseDir(dir, stage, how) ==
    \/ /\ temps' = IF dir = "temp" THEN temps \ {stage} ELSE temps
       /\ Ends(how)
    \/ /\ dir = "temp"
       /\ temps' = temps
       /\ Ends("not deleted")

\* At any time, from outside: nothing is cleaned up, and a file that is being
\* written stays cut off.
Kill == /\ pc # "idle"
        /\ Ends("killed")
        /\ \/ llbc' = llbc
           \/ \E t \in todo : /\ pc = "compile"
                              /\ llbc' = [llbc EXCEPT ![charon_dir] = With(@, CrateName[t], Truncated(t))]
        /\ UNCHANGED <<workspace, edits, run, mlw, tuple, temps,
                       reported>>

-----------------------------------------------------------------------------
(* rust_to_llbc::translate_crates *)

\* Mutant of Start: the temporary directory is one that was used before.
StartInOldTemp(c, w, sel) ==
    /\ pc = "idle"
    /\ sel # {}
    /\ pc' = "compile"
    /\ exit' = "none"
    /\ selected' = sel
    /\ todo' = sel
    /\ charon_dir' = c
    /\ why3_dir' = w
    /\ temps' = IF c = "temp" THEN {"charon"} ELSE {}
    /\ crates' = Empty
    /\ tuple_field_accesses' = {}
    /\ reported' = {}
    /\ UNCHANGED <<workspace, edits, files>>

Start(c, w, sel) ==
    /\ pc = "idle"
    /\ sel # {}
    /\ pc' = "compile"
    /\ exit' = "none"
    /\ selected' = sel
    /\ todo' = sel
    /\ charon_dir' = c
    /\ why3_dir' = w
    /\ llbc' = [llbc EXCEPT !["temp"] = Empty]
    /\ mlw' = [mlw EXCEPT !["temp"] = Empty]
    /\ tuple' = [tuple EXCEPT !["temp"] = {}]
    /\ temps' = IF c = "temp" THEN {"charon"} ELSE {}
    /\ crates' = Empty
    /\ tuple_field_accesses' = {}
    /\ reported' = {}
    /\ UNCHANGED <<workspace, edits>>

\* Mutant of Compile: what was built before is not built again.
CompileOnce(t) ==
    /\ pc = "compile"
    /\ t \in todo
    /\ workspace[t].kind # "rejected"
    /\ llbc' = IF CrateName[t] \in DOMAIN llbc[charon_dir] THEN llbc
               ELSE [llbc EXCEPT ![charon_dir] = With(@, CrateName[t], workspace[t])]
    /\ todo' = todo \ {t}
    /\ UNCHANGED <<workspace, edits, pc, exit, run, crates, mlw, tuple, tuple_field_accesses,
                   temps, reported>>

\* cargo builds the selected targets, each time anew: Charon's driver translates
\* each and writes it to the file with its crate's name.
Compile(t) ==
    /\ pc = "compile"
    /\ t \in todo
    /\ workspace[t].kind # "rejected"
    /\ llbc' = [llbc EXCEPT ![charon_dir] = With(@, CrateName[t], workspace[t])]
    /\ todo' = todo \ {t}
    /\ UNCHANGED <<workspace, edits, pc, exit, run, crates, mlw, tuple, tuple_field_accesses,
                   temps, reported>>

\* The driver fails and so does cargo; handle_exit_status then leaves the
\* process at once.
CompileFails(t) ==
    /\ pc = "compile"
    /\ t \in todo
    /\ workspace[t].kind = "rejected"
    /\ Ends("charon failed")
    /\ UNCHANGED <<workspace, edits, run, files, temps, reported>>

\* Whatever llbc files the directory has, with the names of the crates in them.
Readable == \A n \in DOMAIN llbc[charon_dir] : llbc[charon_dir][n].kind # "truncated"
FilesOf(name) == {n \in DOMAIN llbc[charon_dir] : NameOf(llbc[charon_dir][n]) = name}

Unique == \A n \in DOMAIN llbc[charon_dir] :
             Cardinality(FilesOf(NameOf(llbc[charon_dir][n]))) = 1

ReadLlbc ==
    /\ pc = "compile"
    /\ todo = {}
    /\ Readable
    /\ Unique
    /\ LET read == llbc[charon_dir]
           names == {NameOf(read[n]) : n \in DOMAIN read}
       IN  \E pick \in [names -> DOMAIN read] :
             /\ \A name \in names : pick[name] \in FilesOf(name)
             /\ crates' = [name \in names |-> read[pick[name]]]
             /\ todo' = names
    /\ temps' = (temps \ {"charon"}) \union (IF why3_dir = "temp" THEN {"why3"} ELSE {})
    /\ pc' = "translate"
    /\ UNCHANGED <<workspace, edits, exit, run, files, tuple_field_accesses, reported>>

\* A file is cut off, two are of one crate, or the directory with them cannot
\* be deleted.
ReadLlbcFails ==
    /\ pc = "compile"
    /\ todo = {}
    /\ \/ /\ ~(Readable /\ Unique)
          /\ CloseDir(charon_dir, "charon", "failed")
       \/ /\ Readable /\ Unique /\ charon_dir = "temp"
          /\ temps' = temps
          /\ Ends("not deleted")
    /\ UNCHANGED <<workspace, edits, run, files, reported>>

-----------------------------------------------------------------------------
(* llbc_to_whyml::translate_crates *)

\* Mutant of TranslateCrate: the accesses of the last crate are kept.
TranslateCrateForgets(name) ==
    /\ pc = "translate"
    /\ name \in todo
    /\ crates[name].kind # "unsupported"
    /\ mlw' = [mlw EXCEPT ![why3_dir] = With(@, name, crates[name])]
    /\ tuple_field_accesses' = {crates[name]}
    /\ todo' = todo \ {name}
    /\ UNCHANGED <<workspace, edits, pc, exit, run, llbc, crates, tuple, temps, reported>>

\* The crate's own file is written at once; what tuple.mlw has to have for it
\* is kept for the end.
TranslateCrate(name) ==
    /\ pc = "translate"
    /\ name \in todo
    /\ crates[name].kind # "unsupported"
    /\ mlw' = [mlw EXCEPT ![why3_dir] = With(@, name, crates[name])]
    /\ tuple_field_accesses' = tuple_field_accesses \union {crates[name]}
    /\ todo' = todo \ {name}
    /\ UNCHANGED <<workspace, edits, pc, exit, run, llbc, crates, tuple, temps, reported>>

TranslateCrateFails(name) ==
    /\ pc = "translate"
    /\ name \in todo
    /\ crates[name].kind = "unsupported"
    /\ CloseDir(why3_dir, "why3", "failed")
    /\ UNCHANGED <<workspace, edits, run, files, reported>>

WriteTuple ==
    /\ pc = "translate"
    /\ todo = {}
    /\ tuple' = [tuple EXCEPT ![why3_dir] = tuple_field_accesses]
    /\ pc' = "prove"
    /\ todo' = DOMAIN crates
    /\ UNCHANGED <<workspace, edits, exit, run, llbc, crates, mlw, tuple_field_accesses, temps,
                   reported>>

-----------------------------------------------------------------------------
(* whyml_verify::verify *)

\* why3 reads the crate's file and its library.
Proved(name) == LET file == mlw[why3_dir][name]
                IN  file.kind = "fine" /\ file \in tuple[why3_dir]

Prove(name) ==
    /\ pc = "prove"
    /\ name \in todo
    /\ Proved(name)
    /\ reported' = reported \union {mlw[why3_dir][name]}
    /\ todo' = todo \ {name}
    /\ UNCHANGED <<workspace, edits, pc, exit, run, files, crates, tuple_field_accesses, temps>>

ProveFails(name) ==
    /\ pc = "prove"
    /\ name \in todo
    /\ ~Proved(name)
    /\ CloseDir(why3_dir, "why3", "failed")
    /\ UNCHANGED <<workspace, edits, run, files, reported>>

\* Mutant of Succeed: the temporary directory is not closed.
SucceedWithoutClose ==
    /\ pc = "prove"
    /\ todo = {}
    /\ Ends("success")
    /\ UNCHANGED <<workspace, edits, run, files, temps, reported>>

Succeed ==
    /\ pc = "prove"
    /\ todo = {}
    /\ CloseDir(why3_dir, "why3", "success")
    /\ UNCHANGED <<workspace, edits, run, files, reported>>

-----------------------------------------------------------------------------
Names == {CrateName[t] : t \in Targets}

Next == \/ \E t \in Targets : Edit(t) \/ Compile(t) \/ CompileFails(t)
        \/ \E n \in Names : Backup(n)
        \/ \E c, w \in Dirs, sel \in SUBSET DOMAIN workspace : Start(c, w, sel)
        \/ \E n \in Names : \/ TranslateCrate(n) \/ TranslateCrateFails(n)
                            \/ Prove(n) \/ ProveFails(n)
        \/ ReadLlbc \/ ReadLlbcFails \/ WriteTuple \/ Succeed \/ Kill

Spec == Init /\ [][Next]_vars

-----------------------------------------------------------------------------
(* Properties *)

\* If cargo verify succeeds then it has verified the sources of every target
\* it was to build, whatever was in the user's directories.  ("To verify
\* contracts specified, use `cargo verify` subcommand.")
SuccessMeansVerified ==
    exit = "success" => \A t \in selected : workspace[t] \in reported

\* With a directory of its own, nothing is said to be verified but what the
\* workspace has.
OnlyCurrentReported ==
    charon_dir = "temp" /\ pc # "idle" =>
      reported \subseteq {workspace[t] : t \in selected}

\* why3 only ever sees what was translated in this invocation, all of it: no
\* crate's file and no library file of an earlier one.
ProverSeesTranslation ==
    pc = "prove" => \A n \in todo : /\ mlw[why3_dir][n] = crates[n]
                                    /\ crates[n] \in tuple[why3_dir]

\* "If not provided, a temporary directory is used and then deleted."  Not
\* so where Charon fails, which ends the process in the middle.
TempDirsDeletedBehindCharon ==
    exit \in {"success", "failed"} => temps = {}
=============================================================================
