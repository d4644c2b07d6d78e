------------------------ MODULE VerifyPipelineProofs ------------------------
(* What a run of cargo verify says holds for workspaces with any number of  *)
(* targets that are edited any number of times, as long as no two targets   *)
(* have crates of one name.                                                 *)
EXTENDS VerifyPipeline, FiniteSetTheorems, TLAPS

\* Targets have crates of different names (finding verify_pipeline_names is
\* about those that have not).
DistinctNames == \A s, t \in Targets : CrateName[s] = CrateName[t] => s = t

-----------------------------------------------------------------------------
(* The inductive invariant *)

\* The directories hold finitely many files, and each target's source is its
\* own.
TypeInv == /\ DOMAIN workspace \subseteq Targets
           /\ \A t \in DOMAIN workspace : workspace[t].target = t
           /\ charon_dir \in Dirs
           /\ why3_dir \in Dirs
           /\ DOMAIN llbc = Dirs
           /\ DOMAIN mlw = Dirs
           /\ DOMAIN tuple = Dirs
           /\ \A d \in Dirs : IsFiniteSet(DOMAIN llbc[d])
           /\ pc \in {"idle", "compile", "translate", "prove"}

\* Nobody edits while cargo verify runs or reports a success.
SelectedInv == pc # "idle" \/ exit = "success" => selected \subseteq DOMAIN workspace

\* What a stage has done is in its directory, and stays there.
CompileInv ==
    pc = "compile" =>
      /\ todo \subseteq selected
      /\ \A t \in selected \ todo : /\ CrateName[t] \in DOMAIN llbc[charon_dir]
                                    /\ llbc[charon_dir][CrateName[t]] = workspace[t]
CratesInv ==
    pc \in {"translate", "prove"} =>
      /\ todo \subseteq DOMAIN crates
      /\ \A t \in selected : /\ CrateName[t] \in DOMAIN crates
                             /\ crates[CrateName[t]] = workspace[t]
TranslateInv ==
    pc = "translate" =>
      \A n \in DOMAIN crates \ todo : /\ n \in DOMAIN mlw[why3_dir]
                                      /\ mlw[why3_dir][n] = crates[n]
                                      /\ crates[n] \in tuple_field_accesses
ProveInv ==
    pc = "prove" =>
      /\ \A n \in DOMAIN crates : /\ mlw[why3_dir][n] = crates[n]
                                  /\ crates[n] \in tuple[why3_dir]
      /\ \A n \in DOMAIN crates \ todo : crates[n] \in reported

\* A directory of one's own starts empty.
OwnInv ==
    charon_dir = "temp" =>
      /\ pc = "compile" => /\ reported = {}
                           /\ \A n \in DOMAIN llbc["temp"] :
                                 \E t \in selected : llbc["temp"][n] = workspace[t]
      /\ pc \in {"translate", "prove"} =>
           /\ \A n \in DOMAIN crates : \E t \in selected : crates[n] = workspace[t]
           /\ \A s \in reported : \E t \in selected : s = workspace[t]

\* One temporary directory exists at a time.
TempsInv ==
    /\ pc # "idle" => exit = "none"
    /\ pc = "compile" => temps = IF charon_dir = "temp" THEN {"charon"} ELSE {}
    /\ pc \in {"translate", "prove"} => temps = IF why3_dir = "temp" THEN {"why3"} ELSE {}

IInv == /\ TypeInv
        /\ SelectedInv
        /\ CompileInv
        /\ CratesInv
        /\ TranslateInv
        /\ ProveInv
        /\ OwnInv
        /\ TempsInv
        /\ SuccessMeansVerified
        /\ TempDirsDeletedBehindCharon

-----------------------------------------------------------------------------
(* Files *)

\* Writing a file leaves the others alone.
LEMMA WithFile ==
    ASSUME NEW old, NEW name, NEW content, IsFiniteSet(DOMAIN old)
    PROVE  /\ DOMAIN With(old, name, content) = DOMAIN old \union {name}
           /\ With(old, name, content)[name] = content
           /\ \A n \in DOMAIN old \ {name} : With(old, name, content)[n] = old[n]
           /\ IsFiniteSet(DOMAIN With(old, name, content))
<1>1. DOMAIN With(old, name, content) = DOMAIN old \union {name}
  BY DEF With
<1>2. IsFiniteSet(DOMAIN old \union {name})
  BY FS_AddElement
<1> QED
  BY <1>1, <1>2 DEF With

\* The same, for a file in one of the directories.
LEMMA WithFileIn ==
    ASSUME NEW old, NEW dir \in Dirs, NEW name, NEW content,
           DOMAIN old = Dirs, \A d \in Dirs : IsFiniteSet(DOMAIN old[d]),
           NEW new, new = [old EXCEPT ![dir] = With(@, name, content)]
    PROVE  /\ DOMAIN new = Dirs
           /\ \A d \in Dirs : IsFiniteSet(DOMAIN new[d])
           /\ DOMAIN new[dir] = DOMAIN old[dir] \union {name}
           /\ new[dir][name] = content
           /\ \A n \in DOMAIN old[dir] \ {name} : new[dir][n] = old[dir][n]
<1>1. /\ DOMAIN new = Dirs
      /\ new[dir] = With(old[dir], name, content)
      /\ \A d \in Dirs \ {dir} : new[d] = old[d]
  OBVIOUS
<1>2. /\ DOMAIN new[dir] = DOMAIN old[dir] \union {name}
      /\ new[dir][name] = content
      /\ \A n \in DOMAIN old[dir] \ {name} : new[dir][n] = old[dir][n]
      /\ IsFiniteSet(DOMAIN new[dir])
  <2>1. IsFiniteSet(DOMAIN old[dir])
    OBVIOUS
  <2>2. /\ DOMAIN With(old[dir], name, content) = DOMAIN old[dir] \union {name}
        /\ With(old[dir], name, content)[name] = content
        /\ \A n \in DOMAIN old[dir] \ {name} : With(old[dir], name, content)[n] = old[dir][n]
        /\ IsFiniteSet(DOMAIN With(old[dir], name, content))
    BY <2>1, WithFile
  <2> QED
    BY <1>1, <2>2
<1>3. ASSUME NEW d \in Dirs
      PROVE  IsFiniteSet(DOMAIN new[d])
  BY <1>1, <1>2
<1> QED
  BY <1>1, <1>2, <1>3

-----------------------------------------------------------------------------
(* The steps *)

LEMMA InitInv == Init => IInv
<1> SUFFICES ASSUME Init PROVE IInv
  OBVIOUS
<1>1. TypeInv
  BY FS_EmptySet DEF Init, TypeInv, Dirs, Empty
<1> QED
  BY <1>1 DEF Init, IInv, SelectedInv, CompileInv, CratesInv, TranslateInv, ProveInv, OwnInv,
              TempsInv, SuccessMeansVerified, TempDirsDeletedBehindCharon

\* However an invocation ends, what a success claims is all there is to show.
LEMMA Ending ==
    ASSUME IInv, pc # "idle", NEW how, Ends(how),
           UNCHANGED <<workspace, selected, charon_dir, why3_dir, mlw, tuple>>,
           DOMAIN llbc' = Dirs, \A d \in Dirs : IsFiniteSet(DOMAIN llbc'[d]),
           how = "success" => \A t \in selected : workspace[t] \in reported',
           how \in {"success", "failed"} => temps' = {}
    PROVE  IInv'
<1>1. TypeInv'
  BY DEF IInv, TypeInv, Ends
<1>2. SelectedInv'
  BY DEF IInv, SelectedInv, Ends
<1>3. CompileInv' /\ CratesInv' /\ TranslateInv' /\ ProveInv' /\ OwnInv' /\ TempsInv'
  BY DEF Ends, CompileInv, CratesInv, TranslateInv, ProveInv, OwnInv, TempsInv
<1>4. SuccessMeansVerified' /\ TempDirsDeletedBehindCharon'
  BY DEF Ends, SuccessMeansVerified, TempDirsDeletedBehindCharon
<1> QED
  BY <1>1, <1>2, <1>3, <1>4 DEF IInv

LEMMA EditKeeps ==
    ASSUME IInv, NEW t \in Targets, Edit(t)
    PROVE  IInv'
<1>1. /\ DOMAIN workspace' \subseteq Targets
      /\ \A u \in DOMAIN workspace' : workspace'[u].target = u
  <2>1. CASE \E kind \in Kinds :
               workspace' = With(workspace, t, [target |-> t, edit |-> edits + 1, kind |-> kind])
    BY <2>1 DEF IInv, TypeInv, With
  <2>2. CASE /\ t \in DOMAIN workspace
             /\ workspace' = Restrict(workspace, DOMAIN workspace \ {t})
    BY <2>2 DEF IInv, TypeInv, Restrict
  <2> QED
    BY <2>1, <2>2 DEF Edit
<1>2. TypeInv'
  BY <1>1 DEF IInv, TypeInv, Edit, run, files
<1> QED
  BY <1>2 DEF IInv, Edit, run, files, SelectedInv, CompileInv, CratesInv, TranslateInv, ProveInv,
              OwnInv, TempsInv, SuccessMeansVerified, TempDirsDeletedBehindCharon

LEMMA BackupKeeps ==
    ASSUME IInv, NEW n, Backup(n)
    PROVE  IInv'
<1>1. TypeInv'
  <2>1. /\ DOMAIN llbc' = Dirs
        /\ \A d \in Dirs : IsFiniteSet(DOMAIN llbc'[d])
    BY WithFileIn DEF IInv, TypeInv, Backup, Dirs
  <2> QED
    BY <2>1 DEF IInv, TypeInv, Backup, run
<1> QED
  BY <1>1 DEF IInv, Backup, run, SelectedInv, CompileInv, CratesInv, TranslateInv, ProveInv,
              OwnInv, TempsInv, SuccessMeansVerified, TempDirsDeletedBehindCharon

LEMMA StartKeeps ==
    ASSUME IInv, NEW c \in Dirs, NEW w \in Dirs, NEW sel \in SUBSET DOMAIN workspace,
           Start(c, w, sel)
    PROVE  IInv'
<1>1. TypeInv'
  <2>1. /\ DOMAIN llbc' = Dirs
        /\ \A d \in Dirs : IsFiniteSet(DOMAIN llbc'[d])
    BY FS_EmptySet DEF IInv, TypeInv, Start, Dirs, Empty
  <2> QED
    BY <2>1 DEF IInv, TypeInv, Start
<1>2. OwnInv'
  BY DEF IInv, TypeInv, Start, OwnInv, Dirs, Empty
<1>3. SelectedInv' /\ CompileInv' /\ TempsInv'
  BY DEF Start, SelectedInv, CompileInv, TempsInv
<1> QED
  BY <1>1, <1>2, <1>3 DEF IInv, Start, CratesInv, TranslateInv, ProveInv, SuccessMeansVerified,
                          TempDirsDeletedBehindCharon

\* A crate's file is its own: another one's leaves it alone.
LEMMA CompileKeeps ==
    ASSUME IInv, DistinctNames, NEW t \in Targets, Compile(t)
    PROVE  IInv'
<1> USE DEF run
<1>0. /\ DOMAIN llbc = Dirs
      /\ \A d \in Dirs : IsFiniteSet(DOMAIN llbc[d])
      /\ charon_dir \in Dirs
      /\ llbc' = [llbc EXCEPT ![charon_dir] = With(@, CrateName[t], workspace[t])]
  BY DEF IInv, TypeInv, Compile
<1>1. /\ DOMAIN llbc' = Dirs
      /\ \A d \in Dirs : IsFiniteSet(DOMAIN llbc'[d])
      /\ DOMAIN llbc'[charon_dir] = DOMAIN llbc[charon_dir] \union {CrateName[t]}
      /\ llbc'[charon_dir][CrateName[t]] = workspace[t]
      /\ \A n \in DOMAIN llbc[charon_dir] \ {CrateName[t]} :
            llbc'[charon_dir][n] = llbc[charon_dir][n]
  <2> DEFINE content == workspace[t]
             file == CrateName[t]
             new == llbc'
  <2>1. new = [llbc EXCEPT ![charon_dir] = With(@, file, content)]
    BY <1>0
  <2> HIDE DEF content, file, new
  <2>2. /\ DOMAIN new = Dirs
        /\ \A d \in Dirs : IsFiniteSet(DOMAIN new[d])
        /\ DOMAIN new[charon_dir] = DOMAIN llbc[charon_dir] \union {file}
        /\ new[charon_dir][file] = content
        /\ \A n \in DOMAIN llbc[charon_dir] \ {file} : new[charon_dir][n] = llbc[charon_dir][n]
    BY <1>0, <2>1, WithFileIn
  <2> QED
    BY <2>2 DEF content, file, new
<1>2. TypeInv'
  BY <1>1 DEF IInv, TypeInv, Compile
<1>3. CompileInv'
  <2>1. selected \subseteq Targets /\ t \in selected
    BY DEF IInv, TypeInv, SelectedInv, CompileInv, Compile
  <2>2. ASSUME NEW u \in selected \ todo'
        PROVE  /\ CrateName[u] \in DOMAIN llbc'[charon_dir]
               /\ llbc'[charon_dir][CrateName[u]] = workspace[u]
    <3>1. CASE u = t
      BY <1>1, <3>1
    <3>2. CASE u # t
      <4>1. CrateName[u] # CrateName[t]
        BY <2>1, <3>2 DEF DistinctNames
      <4> QED
        BY <1>1, <3>2, <4>1 DEF IInv, CompileInv, Compile
    <3> QED
      BY <3>1, <3>2
  <2> QED
    BY <2>2 DEF IInv, CompileInv, Compile
<1>4. OwnInv'
  <2>1. t \in selected
    BY DEF IInv, CompileInv, Compile
  <2> QED
    BY <1>1, <2>1 DEF IInv, OwnInv, Compile
<1> QED
  BY <1>2, <1>3, <1>4 DEF IInv, Compile, SelectedInv, CratesInv, TranslateInv, ProveInv,
                          TempsInv, SuccessMeansVerified, TempDirsDeletedBehindCharon

\* Each crate is read from the file that was written for it: no other file may
\* be of its name.
LEMMA ReadLlbcKeeps ==
    ASSUME IInv, ReadLlbc
    PROVE  IInv'
<1> USE DEF run, files
<1> DEFINE read == llbc[charon_dir]
           names == {NameOf(read[n]) : n \in DOMAIN read}
<1>1. PICK pick \in [names -> DOMAIN read] :
        /\ \A name \in names : pick[name] \in FilesOf(name)
        /\ crates' = [name \in names |-> read[pick[name]]]
        /\ todo' = names
  BY DEF ReadLlbc
<1>2. ASSUME NEW t \in selected
      PROVE  CrateName[t] \in names /\ pick[CrateName[t]] = CrateName[t]
                /\ read[CrateName[t]] = workspace[t]
  <2>1. CrateName[t] \in DOMAIN read /\ read[CrateName[t]] = workspace[t]
    BY DEF IInv, CompileInv, ReadLlbc
  <2>2. NameOf(read[CrateName[t]]) = CrateName[t]
    BY <2>1 DEF IInv, TypeInv, SelectedInv, ReadLlbc, NameOf
  <2>3. CrateName[t] \in FilesOf(CrateName[t])
    BY <2>1, <2>2 DEF FilesOf
  <2>4. IsFiniteSet(FilesOf(CrateName[t]))
    BY FS_Subset DEF FilesOf, IInv, TypeInv
  <2>5. Cardinality(FilesOf(CrateName[t])) = 1
    BY <2>1, <2>2 DEF ReadLlbc, Unique
  <2>6. PICK x : FilesOf(CrateName[t]) = {x}
    BY <2>4, <2>5, FS_Singleton
  <2>7. CrateName[t] \in names
    BY <2>1, <2>2
  <2> QED
    BY <1>1, <2>1, <2>3, <2>6, <2>7
<1>3. TypeInv'
  BY DEF IInv, TypeInv, ReadLlbc
<1>4. CratesInv'
  BY <1>1, <1>2 DEF CratesInv, ReadLlbc
<1>5. OwnInv'
  <2>1. ASSUME charon_dir = "temp", NEW n \in DOMAIN crates'
        PROVE  \E t \in selected : crates'[n] = workspace[t]
    BY <1>1, <2>1 DEF IInv, OwnInv, ReadLlbc
  <2> QED
    BY <2>1 DEF IInv, OwnInv, ReadLlbc
<1>6. TranslateInv' /\ TempsInv'
  BY <1>1 DEF IInv, TypeInv, Dirs, TranslateInv, TempsInv, ReadLlbc
<1>7. /\ pc' = "translate" /\ exit' = "none"
      /\ workspace' = workspace /\ selected' = selected
  BY DEF IInv, TempsInv, ReadLlbc
<1>8. SelectedInv'
  BY <1>7 DEF IInv, SelectedInv, ReadLlbc
<1> QED
  BY <1>3, <1>4, <1>5, <1>6, <1>7, <1>8
  DEF IInv, CompileInv, ProveInv, SuccessMeansVerified, TempDirsDeletedBehindCharon

LEMMA TranslateCrateKeeps ==
    ASSUME IInv, NEW name, TranslateCrate(name)
    PROVE  IInv'
<1> USE DEF run
<1>1. /\ DOMAIN mlw' = Dirs
      /\ mlw'[why3_dir] = With(mlw[why3_dir], name, crates[name])
  BY DEF IInv, TypeInv, TranslateCrate
<1>2. TypeInv'
  BY <1>1 DEF IInv, TypeInv, TranslateCrate
<1>3. CratesInv'
  BY DEF IInv, CratesInv, TranslateCrate
<1>4. TranslateInv'
  <2>1. mlw'[why3_dir][name] = crates[name]
    BY <1>1 DEF With
  <2>2. ASSUME NEW n \in DOMAIN mlw[why3_dir], n # name
        PROVE  n \in DOMAIN mlw'[why3_dir] /\ mlw'[why3_dir][n] = mlw[why3_dir][n]
    BY <1>1, <2>2 DEF With
  <2>3. name \in DOMAIN mlw'[why3_dir]
    BY <1>1 DEF With
  <2> QED
    BY <2>1, <2>2, <2>3 DEF IInv, TranslateInv, TranslateCrate
<1> QED
  BY <1>2, <1>3, <1>4 DEF IInv, TranslateCrate, SelectedInv, CompileInv, ProveInv, OwnInv,
                          TempsInv, SuccessMeansVerified, TempDirsDeletedBehindCharon

LEMMA WriteTupleKeeps ==
    ASSUME IInv, WriteTuple
    PROVE  IInv'
<1> USE DEF run
<1>1. /\ DOMAIN tuple' = Dirs
      /\ tuple'[why3_dir] = tuple_field_accesses
  BY DEF IInv, TypeInv, WriteTuple
<1>2. TypeInv'
  BY <1>1 DEF IInv, TypeInv, WriteTuple
<1>3. CratesInv' /\ ProveInv'
  BY <1>1 DEF IInv, CratesInv, TranslateInv, ProveInv, WriteTuple
<1> QED
  BY <1>2, <1>3 DEF IInv, WriteTuple, SelectedInv, CompileInv, TranslateInv, OwnInv,
                    TempsInv, SuccessMeansVerified, TempDirsDeletedBehindCharon

LEMMA ProveKeeps ==
    ASSUME IInv, NEW name, Prove(name)
    PROVE  IInv'
<1> USE DEF run, files
<1>1. mlw[why3_dir][name] = crates[name] /\ name \in DOMAIN crates
  BY DEF IInv, CratesInv, ProveInv, Prove
<1>2. TypeInv' /\ CratesInv'
  BY DEF IInv, TypeInv, CratesInv, Prove
<1>3. ProveInv'
  BY <1>1 DEF IInv, ProveInv, Prove
<1>4. OwnInv'
  BY <1>1 DEF IInv, OwnInv, Prove
<1> QED
  BY <1>2, <1>3, <1>4 DEF IInv, Prove, SelectedInv, CompileInv, TranslateInv,
                          TempsInv, SuccessMeansVerified, TempDirsDeletedBehindCharon

\* The stages that end an invocation.
Stops == \/ \E t \in Targets : CompileFails(t)
         \/ \E n \in Names : TranslateCrateFails(n) \/ ProveFails(n)
         \/ ReadLlbcFails \/ Succeed \/ Kill

LEMMA StopsKeep ==
    ASSUME IInv, Stops
    PROVE  IInv'
<1> USE DEF run, files
<1>1. /\ DOMAIN llbc = Dirs
      /\ \A d \in Dirs : IsFiniteSet(DOMAIN llbc[d])
      /\ charon_dir \in Dirs
  BY DEF IInv, TypeInv
<1>2. CASE \E t \in Targets : CompileFails(t)
  <2>1. Ends("charon failed") /\ pc # "idle"
    BY <1>2 DEF CompileFails
  <2> QED
    BY <1>1, <1>2, <2>1, Ending DEF CompileFails
<1>3. ASSUME NEW dir \in {"charon", "why3"}, NEW how, pc # "idle",
             CloseDir(IF dir = "charon" THEN charon_dir ELSE why3_dir, dir, how),
             pc = (IF dir = "charon" THEN "compile" ELSE pc),
             dir = "why3" => pc \in {"translate", "prove"},
             how = "success" => \A t \in selected : workspace[t] \in reported,
             UNCHANGED <<workspace, edits, run, files, reported>>
      PROVE  IInv'
  <2>1. CASE /\ temps' = temps
             /\ Ends("not deleted")
    BY <1>1, <1>3, <2>1, Ending
  <2>2. CASE /\ temps' = IF (IF dir = "charon" THEN charon_dir ELSE why3_dir) = "temp"
                          THEN temps \ {dir} ELSE temps
             /\ Ends(how)
    <3>1. temps' = {}
      BY <1>3, <2>2 DEF IInv, TempsInv
    <3> QED
      BY <1>1, <1>3, <2>2, <3>1, Ending
  <2> QED
    BY <1>3, <2>1, <2>2 DEF CloseDir
<1>4. CASE \E n \in Names : TranslateCrateFails(n) \/ ProveFails(n)
  BY <1>3, <1>4 DEF TranslateCrateFails, ProveFails
<1>5. CASE ReadLlbcFails
  <2>1. CASE CloseDir(charon_dir, "charon", "failed")
    <3>1. /\ pc = "compile"
          /\ UNCHANGED <<workspace, edits, run, files, reported>>
      BY <1>5 DEF ReadLlbcFails
    <3> QED
      BY <1>3, <2>1, <3>1
  <2>2. CASE Ends("not deleted")
    BY <1>1, <1>5, <2>2, Ending DEF ReadLlbcFails
  <2> QED
    BY <1>5, <2>1, <2>2 DEF ReadLlbcFails
<1>6. CASE Succeed
  <2>1. \A t \in selected : workspace[t] \in reported
    BY <1>6 DEF Succeed, IInv, CratesInv, ProveInv
  <2> QED
    BY <1>3, <1>6, <2>1 DEF Succeed
<1>7. CASE Kill
  <2>1. /\ DOMAIN llbc' = Dirs
        /\ \A d \in Dirs : IsFiniteSet(DOMAIN llbc'[d])
    <3>1. CASE llbc' = llbc
      BY <1>1, <3>1
    <3>2. ASSUME NEW t \in todo,
                 llbc' = [llbc EXCEPT ![charon_dir] = With(@, CrateName[t], Truncated(t))]
          PROVE  /\ DOMAIN llbc' = Dirs
                 /\ \A d \in Dirs : IsFiniteSet(DOMAIN llbc'[d])
      BY <1>1, <3>2, WithFileIn
    <3> QED
      BY <1>7, <3>1, <3>2 DEF Kill
  <2> QED
    BY <1>7, <2>1, Ending DEF Kill
<1> QED
  BY <1>2, <1>4, <1>5, <1>6, <1>7 DEF Stops

LEMMA NextInv == DistinctNames /\ IInv /\ [Next]_vars => IInv'
<1> SUFFICES ASSUME DistinctNames, IInv, [Next]_vars PROVE IInv'
  OBVIOUS
<1>1. CASE UNCHANGED vars
  BY <1>1 DEF vars, IInv, TypeInv, SelectedInv, CompileInv, CratesInv, TranslateInv, ProveInv,
              OwnInv, TempsInv, SuccessMeansVerified, TempDirsDeletedBehindCharon
<1>2. CASE Stops
  BY <1>2, StopsKeep
<1>3. CASE \E t \in Targets : Edit(t) \/ Compile(t)
  BY <1>3, EditKeeps, CompileKeeps
<1>4. CASE \E n \in Names : Backup(n) \/ TranslateCrate(n) \/ Prove(n)
  BY <1>4, BackupKeeps, TranslateCrateKeeps, ProveKeeps
<1>5. CASE \E c, w \in Dirs, sel \in SUBSET DOMAIN workspace : Start(c, w, sel)
  BY <1>5, StartKeeps
<1>6. CASE ReadLlbc \/ WriteTuple
  BY <1>6, ReadLlbcKeeps, WriteTupleKeeps
<1> QED
  BY <1>1, <1>2, <1>3, <1>4, <1>5, <1>6 DEF Next, Stops

-----------------------------------------------------------------------------
(* The theorems *)

\* IInv holds in every state.
THEOREM Invariance ==
    ASSUME DistinctNames
    PROVE  Spec => []IInv
<1>1. IInv /\ [Next]_vars => IInv'
  BY NextInv
<1> QED
  BY InitInv, <1>1, PTL DEF Spec

\* When cargo verify succeeds, it has verified what the workspace has, for
\* any number of crates with names of their own, and any number of
\* invocations, edits and killed invocations before.
THEOREM SuccessIsVerified ==
    ASSUME DistinctNames
    PROVE  Spec => []SuccessMeansVerified
<1>1. IInv => SuccessMeansVerified
  BY DEF IInv
<1> QED
  BY Invariance, <1>1, PTL

\* In a temporary directory Charon's files are all of this invocation, and
\* nothing else is reported.
THEOREM CurrentIsReported ==
    ASSUME DistinctNames
    PROVE  Spec => []OnlyCurrentReported
<1>1. IInv => OnlyCurrentReported
  BY DEF IInv, TypeInv, OwnInv, OnlyCurrentReported
<1> QED
  BY Invariance, <1>1, PTL

\* why3 is run on the crates that were read in this invocation and on a
\* library that was written for all of them.
THEOREM TranslationIsProved ==
    ASSUME DistinctNames
    PROVE  Spec => []ProverSeesTranslation
<1>1. IInv => ProverSeesTranslation
  BY DEF IInv, CratesInv, ProveInv, ProverSeesTranslation
<1> QED
  BY Invariance, <1>1, PTL

\* Behind a success or an error of cargo-verify's own no temporary directory
\* is left.
THEOREM TempDirsAreDeleted ==
    ASSUME DistinctNames
    PROVE  Spec => []TempDirsDeletedBehindCharon
<1>1. IInv => TempDirsDeletedBehindCharon
  BY DEF IInv
<1> QED
  BY Invariance, <1>1, PTL
=============================================================================
