------------------------- MODULE SourceIntakeProofs -------------------------
(***************************************************************************)
(* The safety of SourceIntake for every set of files, uploads, edits and   *)
(* forms and any number of synchronizations, saves and failures.           *)
(*                                                                         *)
(* IntakeInv says who holds the lock while content is merged, that a path  *)
(* is declared before its content comes, and that neither the accepted     *)
(* tree nor the one being staged has lost an upload.  ClearedByRight is    *)
(* what a form carries from its gate to its save.                          *)
(***************************************************************************)
EXTENDS SourceIntake, TLAPS

USE SourceIntakeConstants, NoneIsNoSource DEF Absent, Tree, Source, Row

-----------------------------------------------------------------------------
(* Types *)

LEMMA CurrentTreeType == TypeOK => CurrentTree \in Tree
BY DEF TypeOK, CurrentTree

LEMMA InitTyped == Init => TypeOK
<1> SUFFICES ASSUME Init PROVE TypeOK
  OBVIOUS
<1>1. project \in Row
  BY DEF Init
<1>2. directory \in [File -> 0..MaxSyncs]
  BY DEF Init
<1>3. upload \in [Upload -> Pc] /\ ahead \in [Upload -> SUBSET Upload]
  BY DEF Init, Pc
<1>4. /\ edit \in [FileEdit -> [file : File, on : BOOLEAN] \cup {None, Over}]
      /\ form \in [Form -> [instance : Row, touched : SUBSET Gated,
                             cleared : (SUBSET Gated) \cup {None}] \cup {None, Over}]
  BY DEF Init
<1>5. /\ kind \in {"upload", "data_source"}
      /\ declared \in [File -> {"none", "on", "off"}]
      /\ refreshDue \in BOOLEAN /\ missed \in BOOLEAN
  BY DEF Init
<1>6. syncs \in 0..MaxSyncs /\ due \in Nat /\ asks \in Nat /\ saved \in Nat
        /\ faults \in Nat
  BY DEF Init
<1> QED
  BY <1>1, <1>2, <1>3, <1>4, <1>5, <1>6 DEF Init, TypeOK

\* A row whose source alone is replaced.
LEMMA NewSource ==
  ASSUME NEW row \in Row, NEW s \in Source
  PROVE  /\ [row EXCEPT !.source = s] \in Row
         /\ [row EXCEPT !.source = s].source = s
         /\ [row EXCEPT !.source = s].gated = row.gated
OBVIOUS

LEMMA StagedType ==
  ASSUME TypeOK, NEW tree \in Tree
  PROVE  Staged(tree) \in Source
BY DEF Staged, Enabled

LEMMA UploadTyped ==
  ASSUME TypeOK, NEW u \in Upload,
         Clean(u) \/ SaveUpload(u) \/ PutUpload(u) \/ Ingest(u)
  PROVE  TypeOK'
<1>1. FileOf[u] \in File /\ CurrentTree \in Tree
  BY CurrentTreeType
<1>2. CASE Clean(u)
  <2>1. upload' \in [Upload -> Pc]
    BY <1>2 DEF TypeOK, Clean, Goto, Pc
  <2> QED
    BY <1>2, <2>1 DEF TypeOK, Clean, sync, edits, bounds
<1>3. ASSUME PrepareUpload(u)
      PROVE  /\ upload' \in [Upload -> Pc] /\ ahead' \in [Upload -> SUBSET Upload]
             /\ declared' \in [File -> {"none", "on", "off"}]
  <2>1. upload' \in [Upload -> Pc]
    BY <1>3 DEF TypeOK, PrepareUpload, Goto, Pc
  <2>2. ahead' \in [Upload -> SUBSET Upload]
    BY <1>3 DEF TypeOK, PrepareUpload
  <2>3. declared' \in [File -> {"none", "on", "off"}]
    BY <1>1, <1>3 DEF TypeOK, PrepareUpload, Declare
  <2> QED
    BY <2>1, <2>2, <2>3
<1>4. CASE SaveUpload(u)
  BY <1>3, <1>4 DEF TypeOK, SaveUpload, sync, edits, bounds
<1>5. CASE PutUpload(u)
  BY <1>3, <1>5 DEF TypeOK, PutUpload, sync, edits, bounds
<1>6. CASE Ingest(u)
  <2>1. files' \in Tree
    BY <1>1, <1>6 DEF Ingest
  <2>2. upload' \in [Upload -> Pc]
    BY <1>6 DEF TypeOK, Ingest, Goto, Pc
  <2> QED
    BY <1>6, <2>1, <2>2 DEF TypeOK, Ingest, sync, edits, bounds
<1> QED
  BY <1>2, <1>4, <1>5, <1>6

LEMMA SyncTyped ==
  ASSUME TypeOK, BeginSync \/ SyncFile \/ EndSync \/ AskReconcile \/ Reconcile
  PROVE  TypeOK'
<1>1. CASE BeginSync
  BY <1>1 DEF TypeOK, BeginSync, uploads, edits
<1>2. CASE SyncFile
  BY <1>2 DEF TypeOK, SyncFile, uploads, edits, bounds
<1>3. CASE EndSync
  <2>1. due' \in Nat /\ faults' \in Nat
    BY <1>3 DEF TypeOK, EndSync, Queued, Fault, NoFault
  <2>2. missed' \in BOOLEAN
    BY <1>3 DEF TypeOK, EndSync
  <2> QED
    BY <1>3, <2>1, <2>2 DEF TypeOK, EndSync, uploads, edits
<1>4. CASE AskReconcile
  BY <1>4 DEF TypeOK, AskReconcile, Queued, uploads, edits
<1>5. CASE Reconcile
  <2>1. files' \in Tree
    BY <1>5 DEF TypeOK, Reconcile, DirectoryTree
  <2>2. due' \in Nat
    BY <1>5 DEF TypeOK, Reconcile
  <2> QED
    BY <1>5, <2>1, <2>2 DEF TypeOK, Reconcile, uploads, edits, bounds
<1> QED
  BY <1>1, <1>2, <1>3, <1>4, <1>5

LEMMA AcceptTyped ==
  ASSUME TypeOK, NEW p \in Upload \cup {Reconciler}, Accept(p) \/ Fail(p)
  PROVE  TypeOK'
<1>1. CASE Accept(p)
  <2>1. project' \in Row
    <3>1. Staged(files) \in Source
      BY <1>1, StagedType DEF TypeOK, Accept
    <3> QED
      BY <1>1, <3>1, NewSource DEF TypeOK, Accept
  <2> QED
    BY <1>1, <2>1 DEF TypeOK, Accept, Pc, sync, edits, bounds
<1>2. CASE Fail(p)
  BY <1>2 DEF TypeOK, Fail, Fault, Pc, sync, edits
<1> QED
  BY <1>1, <1>2

LEMMA SelectionTyped ==
  ASSUME TypeOK,
         \/ \E selected \in SUBSET File : SelectScriptFiles(selected)
         \/ \E e \in FileEdit : OpenFile(e) \/ SaveFile(e)
         \/ Refresh
  PROVE  TypeOK'
<1>1. ASSUME NEW selected \in SUBSET File, SelectScriptFiles(selected)
      PROVE  TypeOK'
  BY <1>1 DEF TypeOK, SelectScriptFiles, QueueRefreshIf, Another, uploads, sync,
              edits
<1>2. ASSUME NEW e \in FileEdit, OpenFile(e)
      PROVE  TypeOK'
  BY <1>2 DEF TypeOK, OpenFile, Declared, Another, uploads, sync
<1>3. ASSUME NEW e \in FileEdit, SaveFile(e)
      PROVE  TypeOK'
  <2>1. edit[e].file \in File
    BY <1>3 DEF TypeOK, SaveFile
  <2>2. edit' \in [FileEdit -> [file : File, on : BOOLEAN] \cup {None, Over}]
    BY <1>3 DEF TypeOK, SaveFile
  <2>3. declared' \in [File -> {"none", "on", "off"}]
    BY <1>3, <2>1 DEF TypeOK, SaveFile
  <2>4. refreshDue' \in BOOLEAN
    BY <1>3 DEF TypeOK, SaveFile, QueueRefreshIf, MovesEnabled
  <2> QED
    BY <1>3, <2>2, <2>3, <2>4 DEF TypeOK, SaveFile, uploads, sync, bounds
<1>4. CASE Refresh
  <2>1. project' \in Row
    <3>1. Staged(CurrentTree) \in Source
      BY StagedType, CurrentTreeType
    <3> QED
      BY <1>4, <3>1, NewSource DEF TypeOK, Refresh
  <2>2. faults' \in Nat
    BY <1>4 DEF TypeOK, Refresh, Fault, NoFault
  <2>3. missed' \in BOOLEAN
    BY <1>4 DEF TypeOK, Refresh
  <2> QED
    BY <1>4, <2>1, <2>2, <2>3 DEF TypeOK, Refresh, uploads, sync, edits
<1> QED
  BY <1>1, <1>2, <1>3, <1>4

LEMMA FormTyped ==
  ASSUME TypeOK, NEW m \in Form,
         OpenForm(m) \/ OpenBulk(m) \/ ClearForm(m) \/ SaveForm(m) \/ PutProject(m)
  PROVE  TypeOK'
<1> DEFINE Saves == [instance : Row, touched : SUBSET Gated,
                     cleared : (SUBSET Gated) \cup {None}] \cup {None, Over}
<1>1. CASE OpenForm(m) \/ OpenBulk(m)
  <2>1. form' \in [Form -> Saves]
    <3>1. CASE OpenForm(m)
      <4>1. PICK gated \in [Gated -> BOOLEAN] :
              form' = [form EXCEPT ![m] = [instance |-> [project EXCEPT !.gated = gated],
                                           touched |-> Gated, cleared |-> None]]
        BY <3>1 DEF OpenForm
      <4>2. [project EXCEPT !.gated = gated] \in Row
        BY DEF TypeOK
      <4> QED
        BY <4>1, <4>2 DEF TypeOK
    <3>2. CASE OpenBulk(m)
      <4>1. PICK touched \in SUBSET Gated, value \in BOOLEAN :
              form' = [form EXCEPT ![m] =
                [instance |-> [project EXCEPT !.gated =
                   [g \in Gated |-> IF g \in touched THEN value ELSE @[g]]],
                 touched |-> touched, cleared |-> None]]
        BY <3>2 DEF OpenBulk
      <4>2. [project EXCEPT !.gated =
               [g \in Gated |-> IF g \in touched THEN value ELSE @[g]]] \in Row
        BY DEF TypeOK
      <4> QED
        BY <4>1, <4>2 DEF TypeOK
    <3> QED
      BY <1>1, <3>1, <3>2
  <2>2. saved' \in Nat
    BY <1>1 DEF TypeOK, OpenForm, OpenBulk, Another
  <2> QED
    BY <1>1, <2>1, <2>2 DEF TypeOK, OpenForm, OpenBulk, uploads, sync
<1>2. CASE ClearForm(m)
  <2>1. form' \in [Form -> Saves]
    BY <1>2 DEF TypeOK, ClearForm, Moved
  <2> QED
    BY <1>2, <2>1 DEF TypeOK, ClearForm, uploads, sync, bounds
<1>3. CASE SaveForm(m)
  <2>1. form' \in [Form -> Saves]
    BY <1>3 DEF TypeOK, SaveForm
  <2>2. project' \in Row
    <3>1. form[m].instance \in Row
      BY <1>3 DEF TypeOK, SaveForm
    <3>2. Restored(form[m].instance) \in Row
      BY <3>1 DEF TypeOK, Restored
    <3> QED
      BY <1>3, <3>2 DEF TypeOK, SaveForm
  <2> QED
    BY <1>3, <2>1, <2>2 DEF TypeOK, SaveForm, uploads, sync, bounds
<1>4. CASE PutProject(m)
  <2>1. form' \in [Form -> Saves]
    BY <1>4 DEF TypeOK, PutProject
  <2>2. project' \in Row
    BY <1>4 DEF TypeOK, PutProject
  <2>3. saved' \in Nat
    BY <1>4 DEF TypeOK, PutProject, Another
  <2> QED
    BY <1>4, <2>1, <2>2, <2>3 DEF TypeOK, PutProject, uploads, sync
<1> QED
  BY <1>1, <1>2, <1>3, <1>4

\* Every variable keeps its type.
LEMMA TypeStep == TypeOK /\ [Next]_vars => TypeOK'
<1> SUFFICES ASSUME TypeOK, [Next]_vars PROVE TypeOK'
  OBVIOUS
<1>1. CASE UNCHANGED vars
  BY <1>1 DEF TypeOK, vars, uploads, sync, edits, bounds
<1>2. CASE Next
  BY <1>2, UploadTyped, SyncTyped, AcceptTyped, SelectionTyped, FormTyped DEF Next
<1> QED
  BY <1>1, <1>2

\* Rows, requests, Jobs and open forms keep their types through every upload,
\* reconciliation, selection, edit, failure and crash.
THEOREM TypeCorrect == Spec => []TypeOK
BY InitTyped, TypeStep, PTL DEF Spec

-----------------------------------------------------------------------------
(* Declarations *)

\* What is declared stays so, and a Script File is edited that is declared.
EditsDeclared ==
    \A e \in FileEdit : edit[e] \notin {None, Over} => edit[e].file \in Declared

LEMMA DeclaredGrows ==
  ASSUME TypeOK, EditsDeclared, [Next]_vars
  PROVE  Declared \subseteq Declared'
<1>1. ASSUME NEW f \in File, declared[f] # "none"
      PROVE  declared'[f] # "none"
  <2>1. ASSUME NEW u \in Upload, SaveUpload(u) \/ PutUpload(u)
        PROVE  declared'[f] # "none"
    BY <1>1, <2>1 DEF TypeOK, SaveUpload, PutUpload, PrepareUpload, Declare
  <2>2. ASSUME NEW selected \in SUBSET File, SelectScriptFiles(selected)
        PROVE  declared'[f] # "none"
    BY <1>1, <2>2 DEF SelectScriptFiles, Declared
  <2>3. ASSUME NEW e \in FileEdit, SaveFile(e)
        PROVE  declared'[f] # "none"
    BY <1>1, <2>3 DEF TypeOK, SaveFile
  <2>4. ASSUME UNCHANGED declared
        PROVE  declared'[f] # "none"
    BY <1>1, <2>4
  <2>5. ASSUME NEW u \in Upload, Clean(u) \/ Ingest(u)
        PROVE  UNCHANGED declared
    BY <2>5 DEF Clean, Ingest
  <2>6. ASSUME BeginSync \/ SyncFile \/ EndSync \/ AskReconcile \/ Reconcile \/ Refresh
        PROVE  UNCHANGED declared
    BY <2>6 DEF BeginSync, SyncFile, EndSync, AskReconcile, Reconcile, Refresh
  <2>7. ASSUME NEW p \in Upload \cup {Reconciler}, Accept(p) \/ Fail(p)
        PROVE  UNCHANGED declared
    BY <2>7 DEF Accept, Fail
  <2>8. ASSUME NEW e \in FileEdit, OpenFile(e)
        PROVE  UNCHANGED declared
    BY <2>8 DEF OpenFile
  <2>9. ASSUME NEW m \in Form,
               OpenForm(m) \/ OpenBulk(m) \/ ClearForm(m) \/ SaveForm(m) \/ PutProject(m)
        PROVE  UNCHANGED declared
    BY <2>9 DEF OpenForm, OpenBulk, ClearForm, SaveForm, PutProject
  <2>10. CASE UNCHANGED vars
    BY <2>4, <2>10 DEF vars
  <2> QED
    BY <2>1, <2>2, <2>3, <2>4, <2>5, <2>6, <2>7, <2>8, <2>9, <2>10 DEF Next
<1> QED
  BY <1>1 DEF Declared

LEMMA EditsDeclaredStep ==
  ASSUME TypeOK, EditsDeclared, [Next]_vars
  PROVE  EditsDeclared'
<1>1. Declared \subseteq Declared'
  BY DeclaredGrows
<1>2. CASE UNCHANGED edit
  BY <1>1, <1>2 DEF EditsDeclared
<1>3. ASSUME NEW e \in FileEdit, OpenFile(e)
      PROVE  EditsDeclared'
  BY <1>1, <1>3 DEF TypeOK, OpenFile, EditsDeclared
<1>4. ASSUME NEW e \in FileEdit, SaveFile(e)
      PROVE  EditsDeclared'
  BY <1>1, <1>4 DEF TypeOK, SaveFile, EditsDeclared
<1>5. CASE UNCHANGED vars
  BY <1>2, <1>5 DEF vars, edits
<1>6. CASE Next
  BY <1>2, <1>3, <1>4, <1>6 DEF Next, edits, Clean, SaveUpload, PutUpload, Ingest,
     BeginSync, SyncFile, EndSync, AskReconcile, Reconcile, Accept, Fail,
     SelectScriptFiles, Refresh, OpenForm, OpenBulk, ClearForm, SaveForm, PutProject
<1> QED
  BY <1>5, <1>6

\* New declarations, each judged against all of them, leave no two colliding.
LEMMA ApartAdded ==
  ASSUME NEW old, NEW new,
         \A f \in old : ~Collides(f, old),
         \A f \in new \ old : ~Collides(f, old \cup new)
  PROVE  \A f \in old \cup new : ~Collides(f, old \cup new)
<1> SUFFICES ASSUME NEW f \in old \cup new, NEW g \in old \cup new, {f, g} \in Twins
             PROVE  FALSE
  BY DEF Collides
<1>1. {g, f} = {f, g}
  OBVIOUS
<1>2. CASE f \in old /\ g \in old
  BY <1>2 DEF Collides
<1>3. CASE f \in new \ old
  BY <1>3 DEF Collides
<1>4. CASE g \in new \ old
  BY <1>1, <1>4 DEF Collides
<1> QED
  BY <1>2, <1>3, <1>4

\* A step declares nothing, or an upload's path that collides with nothing, or
\* a selection that does not.
LEMMA TwinsStep ==
  ASSUME TypeOK, EditsDeclared, TwinsApart, [Next]_vars
  PROVE  TwinsApart'
<1>1. ASSUME Declared' = Declared
      PROVE  TwinsApart'
  BY <1>1 DEF TwinsApart, Collides
<1>2. ASSUME NEW u \in Upload, SaveUpload(u) \/ PutUpload(u)
      PROVE  TwinsApart'
  <2>1. CASE Conflict(u)
    BY <1>1, <1>2, <2>1 DEF SaveUpload, PutUpload, PrepareUpload, Declared
  <2>2. CASE ~Conflict(u)
    <3>1. FileOf[u] \in File /\ Declared' = Declared \cup {FileOf[u]}
      BY <1>2, <2>2 DEF TypeOK, SaveUpload, PutUpload, PrepareUpload, Declare, Declared
    <3>2. ASSUME FileOf[u] \notin Declared
          PROVE  ~Collides(FileOf[u], Declared \cup {FileOf[u]})
      <4>1. ~Collides(FileOf[u], Declared) /\ {FileOf[u], FileOf[u]} \notin Twins
        BY <2>2, <3>1, <3>2 DEF Conflict
      <4> QED
        BY <4>1 DEF Collides
    <3>3. \A f \in {FileOf[u]} \ Declared : ~Collides(f, Declared \cup {FileOf[u]})
      BY <3>2
    <3> QED
      BY <3>1, <3>3, ApartAdded DEF TwinsApart
  <2> QED
    BY <2>1, <2>2
<1>3. ASSUME NEW selected \in SUBSET File, SelectScriptFiles(selected)
      PROVE  TwinsApart'
  <2>1. Declared' = Declared \cup selected
    BY <1>3 DEF SelectScriptFiles, Declared
  <2>2. \A f \in selected \ Declared : ~Collides(f, Declared \cup selected)
    BY <1>3 DEF SelectScriptFiles, CollidesAmong
  <2> QED
    BY <2>1, <2>2, ApartAdded DEF TwinsApart
<1>4. ASSUME NEW e \in FileEdit, SaveFile(e)
      PROVE  TwinsApart'
  <2>1. Unpermitted(e) \/ edit[e].file \in Declared
    BY <1>4 DEF EditsDeclared, SaveFile
  <2>2. Declared' = Declared
    BY <1>4, <2>1 DEF TypeOK, SaveFile, Declared
  <2> QED
    BY <1>1, <2>2
<1>5. CASE UNCHANGED declared
  BY <1>1, <1>5 DEF Declared
<1>6. CASE UNCHANGED vars
  BY <1>5, <1>6 DEF vars
<1>7. CASE Next
  BY <1>2, <1>3, <1>4, <1>5, <1>7 DEF Next, Clean, Ingest,
     BeginSync, SyncFile, EndSync, AskReconcile, Reconcile, Accept, Fail, OpenFile,
     Refresh, OpenForm, OpenBulk, ClearForm, SaveForm, PutProject
<1> QED
  BY <1>6, <1>7

\* No two declarations of a Project collide, however many form checks ran before
\* stage_project_upload or select_script_files wrote either.
THEOREM TwinsStayApart == Spec => []TwinsApart
<1>1. Init => EditsDeclared /\ TwinsApart
  BY DEF Init, EditsDeclared, TwinsApart, Declared
<1>2. TypeOK /\ EditsDeclared /\ TwinsApart /\ [Next]_vars
        => (EditsDeclared /\ TwinsApart)'
  BY EditsDeclaredStep, TwinsStep
<1> QED
  BY <1>1, <1>2, TypeCorrect, PTL DEF Spec

-----------------------------------------------------------------------------
(* Project edits *)

LEMMA FormKeepsSource ==
  ASSUME TypeOK, NEW m \in Form, SaveForm(m) \/ PutProject(m)
  PROVE  project'.source = project.source
<1>1. CASE SaveForm(m)
  <2>1. form[m].instance \in Row
    BY <1>1 DEF TypeOK, SaveForm
  <2>2. Restored(form[m].instance).source = project.source
    BY <2>1 DEF Restored
  <2> QED
    BY <1>1, <2>2 DEF SaveForm
<1>2. CASE PutProject(m)
  BY <1>2 DEF TypeOK, PutProject
<1> QED
  BY <1>1, <1>2

\* What a form was cleared to move, its user may move.
ClearedByRight ==
    \A m \in Form :
        form[m] \notin {None, Over} /\ form[m].cleared \notin {None, {}}
            => m \in MayActivate

LEMMA ClearedStep ==
  ASSUME TypeOK, ClearedByRight, [Next]_vars
  PROVE  ClearedByRight'
<1>1. CASE UNCHANGED form
  BY <1>1 DEF ClearedByRight
<1>2. ASSUME NEW m \in Form, OpenForm(m)
      PROVE  ClearedByRight'
  BY <1>2 DEF TypeOK, OpenForm, ClearedByRight
<1>3. ASSUME NEW m \in Form, OpenBulk(m)
      PROVE  ClearedByRight'
  BY <1>3 DEF TypeOK, OpenBulk, ClearedByRight
<1>4. ASSUME NEW m \in Form, ClearForm(m)
      PROVE  ClearedByRight'
  BY <1>4 DEF TypeOK, ClearForm, ClearedByRight
<1>5. ASSUME NEW m \in Form, SaveForm(m) \/ PutProject(m)
      PROVE  ClearedByRight'
  BY <1>5 DEF TypeOK, SaveForm, PutProject, ClearedByRight
<1>6. CASE UNCHANGED vars
  BY <1>1, <1>6 DEF vars, edits
<1>7. CASE Next
  BY <1>1, <1>2, <1>3, <1>4, <1>5, <1>7 DEF Next, edits, Clean, SaveUpload,
     PutUpload, Ingest, BeginSync, SyncFile, EndSync, AskReconcile, Reconcile,
     Accept, Fail, SelectScriptFiles, OpenFile, SaveFile, Refresh
<1> QED
  BY <1>6, <1>7

\* The step of EditsMoveOnlyTheirs, for one save.
LEMMA SaveMovesTheirs ==
  ASSUME TypeOK, ClearedByRight, [Next]_vars, NEW m \in Form,
         form[m] # Over, form'[m] = Over
  PROVE  /\ project'.source = project.source
         /\ \A g \in Gated : project'.gated[g] # project.gated[g] =>
              /\ m \in MayActivate
              /\ form[m] # None => g \in form[m].cleared
<1>1. CASE UNCHANGED project
  BY <1>1
<1>2. CASE SaveForm(m)
  <2>1. project'.source = project.source
    BY <1>2, FormKeepsSource
  <2>2. form[m].instance \in Row /\ form[m] \notin {None, Over}
    BY <1>2 DEF TypeOK, SaveForm
  <2>3. ASSUME NEW g \in Gated, project'.gated[g] # project.gated[g]
        PROVE  g \in form[m].cleared
    <3>1. Overtaken(m) = {} /\ project' = Restored(form[m].instance)
      BY <1>2, <2>3 DEF SaveForm
    <3>2. project'.gated = form[m].instance.gated
      BY <2>2, <3>1 DEF Restored
    <3> QED
      BY <2>3, <3>1, <3>2 DEF Overtaken, Moved
  <2>4. form[m].cleared # None
    BY <1>2 DEF SaveForm
  <2> QED
    BY <2>1, <2>2, <2>3, <2>4 DEF ClearedByRight
<1>3. CASE PutProject(m)
  <2>1. project'.source = project.source
    BY <1>3, FormKeepsSource
  <2>2. form[m] = None
    BY <1>3 DEF PutProject
  <2>3. ASSUME NEW g \in Gated, project'.gated[g] # project.gated[g]
        PROVE  m \in MayActivate
    BY <1>3, <2>3 DEF TypeOK, PutProject, Moved
  <2> QED
    BY <2>1, <2>2, <2>3
<1>4. ASSUME NEW n \in Form, n # m, SaveForm(n) \/ PutProject(n)
      PROVE  FALSE
  BY <1>4 DEF TypeOK, SaveForm, PutProject
<1>5. CASE UNCHANGED form
  BY <1>5
<1>6. ASSUME NEW n \in Form, OpenForm(n) \/ OpenBulk(n) \/ ClearForm(n)
      PROVE  UNCHANGED project
  BY <1>6 DEF OpenForm, OpenBulk, ClearForm
<1>7. CASE UNCHANGED vars
  BY <1>1, <1>7 DEF vars
<1>8. ASSUME NEW n \in Form,
             OpenForm(n) \/ OpenBulk(n) \/ ClearForm(n) \/ SaveForm(n) \/ PutProject(n)
      PROVE  UNCHANGED project \/ SaveForm(m) \/ PutProject(m)
  BY <1>4, <1>6, <1>8
<1>9. CASE Next
  BY <1>1, <1>2, <1>3, <1>5, <1>8, <1>9 DEF Next, edits, Clean, SaveUpload,
     PutUpload, Ingest, BeginSync, SyncFile, EndSync, AskReconcile, Reconcile,
     Accept, Fail, SelectScriptFiles, OpenFile, SaveFile, Refresh
<1> QED
  BY <1>7, <1>9

\* However stale the row a form was opened on, its save moves what its user
\* was cleared to move and nothing else.
THEOREM EditsMoveTheirs == Spec => EditsMoveOnlyTheirs
<1>1. Init => ClearedByRight
  BY DEF Init, ClearedByRight
<1>2. TypeOK /\ ClearedByRight /\ [Next]_vars
        => [\A m \in Form : form[m] # Over /\ form'[m] = Over =>
              /\ project'.source = project.source
              /\ \A g \in Gated : project'.gated[g] # project.gated[g] =>
                   /\ m \in MayActivate
                   /\ form[m] # None => g \in form[m].cleared]_vars
  BY SaveMovesTheirs
<1> QED
  BY <1>1, <1>2, ClearedStep, TypeCorrect, PTL DEF Spec, EditsMoveOnlyTheirs

-----------------------------------------------------------------------------
(* Selections *)

\* Whatever moves the declarations queues the refresh that applies them, and
\* whatever restages freezes those of now.
LEMMA AccountedStep ==
  ASSUME TypeOK, SelectionAccounted, [Next]_vars
  PROVE  SelectionAccounted'
<1>1. ASSUME project'.source = project.source, Enabled' = Enabled,
             refreshDue => refreshDue', missed => missed', holder' = holder,
             \A u \in Upload : upload[u] = "committed" => upload'[u] = "committed"
      PROVE  SelectionAccounted'
  BY <1>1 DEF SelectionAccounted
<1>2. ASSUME NEW u \in Upload, Clean(u)
      PROVE  SelectionAccounted'
  BY <1>1, <1>2 DEF TypeOK, Clean, Goto, Enabled
<1>3. ASSUME NEW u \in Upload, SaveUpload(u) \/ PutUpload(u)
      PROVE  SelectionAccounted'
  <2>1. CASE Conflict(u)
    <3>1. /\ UNCHANGED <<project, declared, refreshDue, missed, holder>>
          /\ \A v \in Upload : upload[v] = "committed" => upload'[v] = "committed"
      BY <1>3, <2>1 DEF TypeOK, SaveUpload, PutUpload, PrepareUpload, Goto
    <3> QED
      BY <1>1, <3>1 DEF Enabled
  <2>2. CASE ~Conflict(u)
    <3>1. upload'[u] = "committed"
      BY <1>3, <2>2 DEF TypeOK, SaveUpload, PutUpload, PrepareUpload, Goto
    <3> QED
      BY <3>1 DEF SelectionAccounted
  <2> QED
    BY <2>1, <2>2
<1>4. ASSUME NEW u \in Upload, Ingest(u)
      PROVE  SelectionAccounted'
  BY <1>4 DEF Ingest, SelectionAccounted
<1>5. ASSUME BeginSync \/ SyncFile \/ EndSync \/ AskReconcile
      PROVE  SelectionAccounted'
  <2>1. UNCHANGED <<project, declared, refreshDue, holder, upload>>
    BY <1>5 DEF BeginSync, SyncFile, EndSync, AskReconcile, uploads
  <2>2. missed => missed'
    BY <1>5 DEF BeginSync, SyncFile, EndSync, AskReconcile, bounds
  <2> QED
    BY <1>1, <2>1, <2>2 DEF Enabled
<1>6. CASE Reconcile
  BY <1>6 DEF Reconcile, SelectionAccounted
<1>7. ASSUME NEW p \in Upload \cup {Reconciler}, Accept(p)
      PROVE  SelectionAccounted'
  <2>1. Staged(files) \in Source /\ project \in Row
    BY <1>7, StagedType DEF TypeOK, Accept
  <2>2. project'.source = Staged(files) /\ Enabled' = Enabled
    BY <1>7, <2>1, NewSource DEF Accept, Enabled
  <2>3. Staged(files).frozen = Enabled
    BY DEF Staged
  <2> QED
    BY <2>2, <2>3 DEF SelectionAccounted
<1>8. ASSUME NEW p \in Upload \cup {Reconciler}, Fail(p)
      PROVE  SelectionAccounted'
  BY <1>8 DEF Fail, SelectionAccounted
<1>9. ASSUME NEW selected \in SUBSET File, SelectScriptFiles(selected)
      PROVE  SelectionAccounted'
  <2>1. Enabled' = selected
    BY <1>9 DEF SelectScriptFiles, Enabled
  <2>2. CASE selected = Enabled
    <3>1. UNCHANGED <<project, missed, holder, upload>>
      BY <1>9 DEF SelectScriptFiles, uploads
    <3>2. refreshDue => refreshDue'
      BY <1>9 DEF SelectScriptFiles, QueueRefreshIf
    <3> QED
      BY <1>1, <2>1, <2>2, <3>1, <3>2
  <2>3. CASE selected # Enabled
    BY <1>9, <2>3 DEF SelectScriptFiles, QueueRefreshIf, Changes, SelectionAccounted
  <2> QED
    BY <2>2, <2>3
<1>10. ASSUME NEW e \in FileEdit, OpenFile(e)
       PROVE  SelectionAccounted'
  BY <1>1, <1>10 DEF OpenFile, uploads, Enabled
<1>11. ASSUME NEW e \in FileEdit, SaveFile(e)
       PROVE  SelectionAccounted'
  <2>1. UNCHANGED <<project, missed, holder, upload>>
    BY <1>11 DEF SaveFile, uploads, bounds
  <2>2. CASE Unpermitted(e)
    BY <1>1, <1>11, <2>1, <2>2 DEF SaveFile, Enabled
  <2>3. CASE ~Unpermitted(e) /\ MovesEnabled(e)
    BY <1>11, <2>3 DEF SaveFile, QueueRefreshIf, SelectionAccounted
  <2>4. CASE ~Unpermitted(e) /\ ~MovesEnabled(e)
    <3>1. Enabled' = Enabled
      BY <1>11, <2>4 DEF TypeOK, SaveFile, MovesEnabled, Enabled
    <3>2. refreshDue => refreshDue'
      BY <1>11, <2>4 DEF SaveFile, QueueRefreshIf
    <3> QED
      BY <1>1, <2>1, <3>1, <3>2
  <2> QED
    BY <2>2, <2>3, <2>4
<1>12. CASE Refresh
  <2>1. CASE missed'
    BY <2>1 DEF SelectionAccounted
  <2>2. CASE project.source = None /\ project' = project
    BY <2>2 DEF SelectionAccounted
  <2>3. CASE project' = [project EXCEPT !.source = Staged(CurrentTree)]
    <3>1. Staged(CurrentTree) \in Source /\ project \in Row
      BY StagedType, CurrentTreeType DEF TypeOK
    <3>2. project'.source = Staged(CurrentTree) /\ Enabled' = Enabled
      BY <1>12, <2>3, <3>1, NewSource DEF Refresh, Enabled
    <3>3. Staged(CurrentTree).frozen = Enabled
      BY DEF Staged
    <3> QED
      BY <3>2, <3>3 DEF SelectionAccounted
  <2> QED
    BY <1>12, <2>1, <2>2, <2>3 DEF Refresh
<1>13. ASSUME NEW m \in Form, OpenForm(m) \/ OpenBulk(m) \/ ClearForm(m)
       PROVE  SelectionAccounted'
  BY <1>1, <1>13 DEF OpenForm, OpenBulk, ClearForm, uploads, bounds, Enabled
<1>14. ASSUME NEW m \in Form, SaveForm(m) \/ PutProject(m)
       PROVE  SelectionAccounted'
  <2>1. project'.source = project.source
    BY <1>14, FormKeepsSource
  <2>2. UNCHANGED <<declared, refreshDue, missed, holder, upload>>
    BY <1>14 DEF SaveForm, PutProject, uploads, bounds
  <2> QED
    BY <1>1, <2>1, <2>2 DEF Enabled
<1>15. CASE UNCHANGED vars
  BY <1>1, <1>15 DEF vars, uploads, Enabled
<1> QED
  BY <1>2, <1>3, <1>4, <1>5, <1>6, <1>7, <1>8, <1>9, <1>10, <1>11, <1>12, <1>13,
     <1>14, <1>15 DEF Next

\* A selection the accepted revision did not freeze is restaged, or a refresh,
\* an upload or a reconciliation is there that will, or an intake failed.
THEOREM SelectionsAccounted == Spec => []SelectionAccounted
<1>1. Init => SelectionAccounted
  BY DEF Init, SelectionAccounted
<1> QED
  BY <1>1, AccountedStep, TypeCorrect, PTL DEF Spec

-----------------------------------------------------------------------------
(* Uploads *)

\* An upload that was prepared, whatever came of it.
Prepared(u) == upload[u] \in {"committed", "ingesting", "stored", "failed"}

\* Its content is still to come.
Pending(u) == upload[u] \in {"committed", "ingesting"}

\* Uploads u and v are of one path.
Rivals(u, v) == u # v /\ FileOf[u] = FileOf[v]

\* What UploadsKept says of the accepted tree, of any tree, with the uploads at
\* their stages and those ahead of each.
Kept(tree, stage, before) ==
    \A u \in Upload : stage[u] = "stored" =>
        \/ tree[FileOf[u]] = u
        \/ tree[FileOf[u]] \in Confirmed
        \/ tree[FileOf[u]] \in before[u] \ Api

\* A Project takes uploads or reconciles, never both.
KindInv ==
    /\ \A u \in Upload : upload[u] # "idle" => kind = "upload"
    /\ kind = "upload" => due = 0 /\ unsynced = None /\ holder # Reconciler

\* Ingestion is under the lock, and so is all of a REST upload, which has no
\* form to be clean.
LockInv ==
    /\ holder = Nobody => files = None
    /\ \A u \in Upload :
         /\ u \in Api => upload[u] # "clean"
         /\ upload[u] = "ingesting" => holder = u
         /\ u \in Api /\ upload[u] = "committed" => holder = u
         /\ holder = u /\ files # None
              => upload[u] = "ingesting" /\ files[FileOf[u]] = u

\* An upload's path is declared with its preparation, so one that is not
\* confirmed was prepared before its rivals; one through the REST API
\* ends before they start.
OrderInv ==
    \A u \in Upload : Prepared(u) =>
        /\ FileOf[u] \in Declared
        /\ \A v \in Upload : u \notin Confirmed /\ Prepared(v) /\ Rivals(u, v) =>
              /\ u \in ahead[v]
              /\ u \in Api => ~Pending(u)

\* Neither the accepted tree nor the one being staged has lost an upload.
TreeInv ==
    /\ Kept(CurrentTree, upload, ahead)
    /\ kind = "upload" /\ files # None => Kept(files, upload, ahead)

IntakeInv == KindInv /\ LockInv /\ OrderInv /\ TreeInv

\* What most steps do to uploads and trees: nothing.
Quiet ==
    /\ UNCHANGED <<kind, upload, ahead, holder, files, CurrentTree>>
    /\ kind = "upload" => UNCHANGED <<due, unsynced>>

LEMMA QuietKeeps ==
  ASSUME IntakeInv, Quiet, Declared \subseteq Declared'
  PROVE  IntakeInv'
<1>1. KindInv'
  BY DEF IntakeInv, KindInv, Quiet
<1>2. LockInv'
  BY DEF IntakeInv, LockInv, Quiet
<1>3. OrderInv'
  BY DEF IntakeInv, OrderInv, Prepared, Pending, Quiet
<1>4. TreeInv'
  BY DEF IntakeInv, TreeInv, Quiet
<1> QED
  BY <1>1, <1>2, <1>3, <1>4 DEF IntakeInv

\* An upload that is not stored may move as it likes.
LEMMA KeptMoved ==
  ASSUME NEW tree, NEW stage, NEW before, NEW stage2, NEW before2,
         Kept(tree, stage, before),
         \A u \in Upload : stage2[u] = "stored" =>
             stage[u] = "stored" /\ before2[u] = before[u]
  PROVE  Kept(tree, stage2, before2)
BY DEF Kept

LEMMA CleanKeeps ==
  ASSUME TypeOK, IntakeInv, NEW u \in Upload,
         \/ Clean(u)
         \/ (SaveUpload(u) \/ PutUpload(u)) /\ Conflict(u)
  PROVE  IntakeInv'
<1>1. /\ UNCHANGED <<kind, project, declared, holder, files, ahead, due, unsynced>>
      /\ kind = "upload" /\ ~Prepared(u)
  BY DEF Clean, SaveUpload, PutUpload, PrepareUpload, sync, Prepared, IntakeInv, KindInv
<1>2. /\ upload' = [upload EXCEPT ![u] = upload'[u]]
      /\ upload'[u] \in {"clean", "refused"}
  BY DEF TypeOK, Clean, SaveUpload, PutUpload, PrepareUpload, Goto
<1>3. \A v \in Upload : /\ Prepared(v)' <=> Prepared(v)
                        /\ Pending(v)' <=> Pending(v)
                        /\ upload'[v] = "stored" <=> upload[v] = "stored"
  BY <1>1, <1>2 DEF TypeOK, Prepared, Pending
<1>4. CurrentTree' = CurrentTree /\ Declared' = Declared
  BY <1>1 DEF CurrentTree, Declared
<1>5. KindInv'
  BY <1>1, <1>2 DEF TypeOK, IntakeInv, KindInv
<1>6. LockInv'
  <2>1. u \in Api => upload'[u] # "clean"
    BY DEF TypeOK, Clean, SaveUpload, PutUpload, PrepareUpload, Goto, IntakeInv, LockInv
  <2> QED
    BY <1>1, <1>2, <2>1 DEF TypeOK, IntakeInv, LockInv, Prepared
<1>7. OrderInv'
  BY <1>1, <1>3, <1>4 DEF IntakeInv, OrderInv
<1>8. TreeInv'
  BY <1>1, <1>3, <1>4, KeptMoved DEF IntakeInv, TreeInv
<1> QED
  BY <1>5, <1>6, <1>7, <1>8 DEF IntakeInv

LEMMA PrepareKeeps ==
  ASSUME TypeOK, IntakeInv, NEW u \in Upload,
         SaveUpload(u) \/ PutUpload(u), ~Conflict(u)
  PROVE  IntakeInv'
<1>1. /\ UNCHANGED <<kind, project, files, due, unsynced>>
      /\ holder = Nobody /\ ~Prepared(u) /\ kind = "upload"
  BY DEF SaveUpload, PutUpload, sync, Prepared, IntakeInv, KindInv
<1>2. upload' = [upload EXCEPT ![u] = "committed"]
  BY DEF SaveUpload, PutUpload, PrepareUpload, Goto
<1>3. /\ ahead' = [ahead EXCEPT ![u] = {v \in Upload : Prepared(v)}]
      /\ declared' = [declared EXCEPT ![FileOf[u]] = "on"]
  BY DEF SaveUpload, PutUpload, PrepareUpload, Declare, Prepared
<1>4. holder' \in {Nobody, u} /\ (u \in Api => holder' = u)
  BY <1>1 DEF PutUpload, SaveUpload, IntakeInv, LockInv
<1>5. FileOf[u] \in File /\ Declared' = Declared \cup {FileOf[u]}
  BY <1>3 DEF TypeOK, Declared
<1>6. CurrentTree' = CurrentTree
  BY <1>1 DEF CurrentTree
<1>7. \A v \in Upload \ {u} : upload'[v] = upload[v] /\ ahead'[v] = ahead[v]
  BY <1>2, <1>3 DEF TypeOK
<1>8. upload'[u] = "committed" /\ ahead'[u] = {v \in Upload : Prepared(v)}
  BY <1>2, <1>3 DEF TypeOK
<1>9. KindInv'
  BY <1>1, <1>4, <1>7 DEF IntakeInv, KindInv
<1>10. LockInv'
  BY <1>1, <1>4, <1>7, <1>8 DEF IntakeInv, LockInv
<1>11. OrderInv'
  <2> SUFFICES ASSUME NEW v \in Upload, Prepared(v)'
               PROVE  /\ FileOf[v] \in Declared'
                      /\ \A w \in Upload :
                           v \notin Confirmed /\ Prepared(w)' /\ Rivals(v, w) =>
                             /\ v \in ahead'[w]
                             /\ v \in Api => ~Pending(v)'
    BY DEF OrderInv
  <2>1. FileOf[v] \in Declared'
    BY <1>5, <1>7 DEF IntakeInv, OrderInv, Prepared
  <2>2. ASSUME NEW w \in Upload, v \notin Confirmed, Prepared(w)', Rivals(v, w)
        PROVE  v \in ahead'[w] /\ (v \in Api => ~Pending(v)')
    \* A rival of an unconfirmed upload would have made it conflict.
    <3>1. CASE v = u
      <4>1. Prepared(w) /\ FileOf[w] = FileOf[u]
        BY <1>7, <2>2, <3>1 DEF Rivals, Prepared
      <4>2. FileOf[u] \in Declared
        BY <4>1 DEF IntakeInv, OrderInv
      <4> QED
        BY <2>2, <3>1, <4>2 DEF Conflict
    <3>2. CASE w = u
      <4>1. Prepared(v) /\ upload'[v] = upload[v]
        BY <1>7, <2>2, <3>2 DEF Rivals, Prepared
      <4>2. v \in Api => ~Pending(v)
        BY <1>1, <4>1 DEF IntakeInv, LockInv, Pending
      <4> QED
        BY <1>8, <3>2, <4>1, <4>2 DEF Pending
    <3>3. CASE v # u /\ w # u
      BY <1>7, <2>2, <3>3 DEF IntakeInv, OrderInv, Prepared, Pending
    <3> QED
      BY <3>1, <3>2, <3>3
  <2> QED
    BY <2>1, <2>2
<1>12. TreeInv'
  BY <1>1, <1>6, <1>7, <1>8, KeptMoved DEF IntakeInv, TreeInv
<1> QED
  BY <1>9, <1>10, <1>11, <1>12 DEF IntakeInv

\* Ingestion puts an upload over its rivals; who lost to it is confirmed away
\* or was prepared after it.
LEMMA IngestKeeps ==
  ASSUME TypeOK, IntakeInv, NEW u \in Upload, Ingest(u)
  PROVE  IntakeInv'
<1>1. /\ UNCHANGED <<kind, project, declared, ahead, due, unsynced>>
      /\ upload[u] = "committed" /\ holder \in {Nobody, u}
      /\ holder' = u /\ files' = [CurrentTree EXCEPT ![FileOf[u]] = u]
  BY DEF Ingest, sync
<1>2. /\ upload'[u] = "ingesting"
      /\ \A v \in Upload \ {u} : upload'[v] = upload[v]
  BY DEF TypeOK, Ingest, Goto
<1>3. CurrentTree' = CurrentTree /\ Declared' = Declared
  BY <1>1 DEF CurrentTree, Declared
<1>4. CurrentTree \in Tree /\ FileOf[u] \in File
  BY CurrentTreeType
<1>5. KindInv'
  BY <1>1, <1>2 DEF IntakeInv, KindInv
<1>6. LockInv'
  <2>1. files'[FileOf[u]] = u
    BY <1>1, <1>4
  <2> QED
    BY <1>1, <1>2, <2>1 DEF IntakeInv, LockInv
<1>7. OrderInv'
  <2>1. \A v \in Upload : (Prepared(v)' <=> Prepared(v)) /\ (Pending(v)' <=> Pending(v))
    BY <1>1, <1>2 DEF Prepared, Pending
  <2> QED
    BY <1>1, <1>3, <2>1 DEF IntakeInv, OrderInv
<1>8. TreeInv'
  <2>1. Kept(CurrentTree', upload', ahead')
    BY <1>1, <1>2, <1>3, KeptMoved DEF IntakeInv, TreeInv
  <2>2. Kept(files', upload', ahead')
    <3> SUFFICES ASSUME NEW v \in Upload, upload'[v] = "stored"
                 PROVE  \/ files'[FileOf[v]] = v
                        \/ files'[FileOf[v]] \in Confirmed
                        \/ files'[FileOf[v]] \in ahead[v] \ Api
      BY <1>1 DEF Kept
    <3>1. v # u /\ upload[v] = "stored" /\ FileOf[v] \in File
      BY <1>2
    <3>2. CASE FileOf[v] # FileOf[u]
      <4>1. files'[FileOf[v]] = CurrentTree[FileOf[v]]
        BY <1>1, <1>4, <3>1, <3>2
      <4> QED
        BY <3>1, <4>1 DEF IntakeInv, TreeInv, Kept
    <3>3. CASE FileOf[v] = FileOf[u]
      <4>1. files'[FileOf[v]] = u
        BY <1>1, <1>4, <3>3
      <4>2. u \in Confirmed \/ (u \in ahead[v] /\ u \notin Api)
        BY <1>1, <3>1, <3>3 DEF IntakeInv, OrderInv, Prepared, Pending, Rivals
      <4> QED
        BY <4>1, <4>2
    <3> QED
      BY <3>2, <3>3
  <2> QED
    BY <2>1, <2>2 DEF TreeInv
<1> QED
  BY <1>5, <1>6, <1>7, <1>8 DEF IntakeInv

\* What is accepted is the tree the holder read.
LEMMA AcceptKeeps ==
  ASSUME TypeOK, IntakeInv, NEW p \in Upload \cup {Reconciler}, Accept(p)
  PROVE  IntakeInv'
<1>1. /\ UNCHANGED <<kind, declared, ahead, due, unsynced>>
      /\ holder = p /\ files # None /\ holder' = Nobody /\ files' = None
      /\ upload' = [v \in Upload |-> IF v = p THEN "stored" ELSE upload[v]]
  BY DEF Accept, sync
<1>2. CurrentTree' = files
  <2>1. Staged(files) \in Source /\ project \in Row
    BY <1>1, StagedType DEF TypeOK
  <2>2. project'.source = Staged(files)
    BY <2>1, NewSource DEF Accept
  <2>3. Staged(files).tree = files
    BY DEF Staged
  <2> QED
    BY <2>1, <2>2, <2>3 DEF CurrentTree
<1>3. p \in Upload => upload[p] = "ingesting" /\ files[FileOf[p]] = p /\ kind = "upload"
  BY <1>1 DEF IntakeInv, LockInv, KindInv
<1>4. \A v \in Upload : (Prepared(v)' <=> Prepared(v)) /\ (Pending(v)' => Pending(v))
  BY <1>1, <1>3 DEF Prepared, Pending
<1>5. KindInv'
  BY <1>1, <1>3 DEF IntakeInv, KindInv
<1>6. LockInv'
  BY <1>1, <1>3 DEF IntakeInv, LockInv
<1>7. OrderInv'
  BY <1>1, <1>4 DEF IntakeInv, OrderInv, Declared
<1>8. TreeInv'
  <2> SUFFICES ASSUME NEW v \in Upload, upload'[v] = "stored"
               PROVE  \/ files[FileOf[v]] = v
                      \/ files[FileOf[v]] \in Confirmed
                      \/ files[FileOf[v]] \in ahead[v] \ Api
    BY <1>1, <1>2 DEF TreeInv, Kept
  <2>1. CASE v = p
    BY <1>3, <2>1
  <2>2. CASE v # p
    <3>1. upload[v] = "stored" /\ kind = "upload"
      BY <1>1, <2>2 DEF IntakeInv, KindInv
    <3> QED
      BY <1>1, <3>1 DEF IntakeInv, TreeInv, Kept
  <2> QED
    BY <2>1, <2>2
<1> QED
  BY <1>5, <1>6, <1>7, <1>8 DEF IntakeInv

LEMMA FailKeeps ==
  ASSUME TypeOK, IntakeInv, NEW p \in Upload \cup {Reconciler}, Fail(p)
  PROVE  IntakeInv'
<1>1. /\ UNCHANGED <<kind, project, declared, ahead, due, unsynced>>
      /\ upload' = [v \in Upload |-> IF v = p THEN "failed" ELSE upload[v]]
      /\ holder' = (IF holder = p THEN Nobody ELSE holder)
      /\ files' = (IF holder = p THEN None ELSE files)
  BY DEF Fail, sync
<1>2. p \in Upload => Pending(p) /\ kind = "upload"
  BY DEF Fail, Pending, IntakeInv, KindInv
<1>3. \A v \in Upload : /\ (Prepared(v)' <=> Prepared(v)) /\ (Pending(v)' => Pending(v))
                        /\ upload'[v] = "stored" => upload[v] = "stored"
  BY <1>1, <1>2 DEF Prepared, Pending
<1>4. CurrentTree' = CurrentTree /\ Declared' = Declared
  BY <1>1 DEF CurrentTree, Declared
<1>5. KindInv'
  BY <1>1, <1>2 DEF IntakeInv, KindInv
<1>6. LockInv'
  BY <1>1, <1>2 DEF TypeOK, IntakeInv, LockInv, Pending
<1>7. OrderInv'
  BY <1>1, <1>3, <1>4 DEF IntakeInv, OrderInv
<1>8. TreeInv'
  <2>1. Kept(CurrentTree', upload', ahead')
    BY <1>1, <1>3, <1>4, KeptMoved DEF IntakeInv, TreeInv
  <2>2. kind' = "upload" /\ files' # None => Kept(files', upload', ahead')
    BY <1>1, <1>3, KeptMoved DEF IntakeInv, TreeInv
  <2> QED
    BY <2>1, <2>2 DEF TreeInv
<1> QED
  BY <1>5, <1>6, <1>7, <1>8 DEF IntakeInv

LEMMA ReconcileKeeps ==
  ASSUME TypeOK, IntakeInv, Reconcile
  PROVE  IntakeInv'
<1>1. /\ UNCHANGED <<kind, project, declared, upload, ahead, unsynced>>
      /\ due > 0 /\ holder = Nobody /\ holder' = Reconciler
  BY DEF Reconcile, uploads
<1>2. kind # "upload"
  BY <1>1 DEF IntakeInv, KindInv
<1>3. \A u \in Upload : upload[u] = "idle"
  BY <1>2 DEF IntakeInv, KindInv
<1> QED
  BY <1>1, <1>2, <1>3 DEF IntakeInv, KindInv, LockInv, OrderInv, TreeInv, Kept, Prepared

\* Everything else leaves uploads, lock and tree alone.
LEMMA OthersQuiet ==
  ASSUME TypeOK, IntakeInv,
         \/ BeginSync \/ SyncFile \/ EndSync \/ AskReconcile \/ Refresh
         \/ \E selected \in SUBSET File : SelectScriptFiles(selected)
         \/ \E e \in FileEdit : OpenFile(e) \/ SaveFile(e)
         \/ \E m \in Form : \/ OpenForm(m) \/ OpenBulk(m) \/ ClearForm(m)
                             \/ SaveForm(m) \/ PutProject(m)
         \/ UNCHANGED vars
  PROVE  Quiet
<1>1. ASSUME UNCHANGED <<kind, project, upload, ahead, holder, files, due, unsynced>>
      PROVE  Quiet
  BY <1>1 DEF Quiet, CurrentTree
<1>2. ASSUME BeginSync \/ SyncFile \/ EndSync \/ AskReconcile
      PROVE  Quiet
  <2>1. UNCHANGED <<kind, project, upload, ahead, holder, files>>
    BY <1>2 DEF BeginSync, SyncFile, EndSync, AskReconcile, uploads
  <2>2. kind # "upload"
    BY <1>2 DEF BeginSync, SyncFile, EndSync, AskReconcile, IntakeInv, KindInv
  <2> QED
    BY <2>1, <2>2 DEF Quiet, CurrentTree
<1>3. CASE Refresh
  <2>1. UNCHANGED <<kind, upload, ahead, holder, files, due, unsynced>>
    BY <1>3 DEF Refresh, uploads, sync
  <2>2. CASE project' = project
    BY <1>1, <2>1, <2>2
  <2>3. CASE project.source # None /\ project' = [project EXCEPT !.source = Staged(CurrentTree)]
    <3>1. Staged(CurrentTree) \in Source /\ project \in Row
      BY StagedType, CurrentTreeType DEF TypeOK
    <3>2. project'.source = Staged(CurrentTree)
      BY <2>3, <3>1, NewSource
    <3>3. Staged(CurrentTree).tree = CurrentTree
      BY DEF Staged
    <3>4. CurrentTree' = CurrentTree
      BY <3>1, <3>2, <3>3 DEF CurrentTree
    <3> QED
      BY <2>1, <3>4 DEF Quiet
  <2> QED
    BY <1>3, <2>2, <2>3 DEF Refresh
<1>4. ASSUME NEW m \in Form, SaveForm(m) \/ PutProject(m)
      PROVE  Quiet
  <2>1. project'.source = project.source
    BY <1>4, FormKeepsSource
  <2>2. UNCHANGED <<kind, upload, ahead, holder, files, due, unsynced>>
    BY <1>4 DEF SaveForm, PutProject, uploads, sync
  <2> QED
    BY <2>1, <2>2 DEF Quiet, CurrentTree
<1>5. ASSUME NEW m \in Form, OpenForm(m) \/ OpenBulk(m) \/ ClearForm(m)
      PROVE  Quiet
  BY <1>1, <1>5 DEF OpenForm, OpenBulk, ClearForm, uploads, sync
<1>6. ASSUME NEW e \in FileEdit, OpenFile(e) \/ SaveFile(e)
      PROVE  Quiet
  BY <1>1, <1>6 DEF OpenFile, SaveFile, uploads, sync
<1>7. ASSUME NEW selected \in SUBSET File, SelectScriptFiles(selected)
      PROVE  Quiet
  BY <1>1, <1>7 DEF SelectScriptFiles, uploads, sync
<1>8. CASE UNCHANGED vars
  BY <1>1, <1>8 DEF vars, uploads, sync
<1> QED
  BY <1>2, <1>3, <1>4, <1>5, <1>6, <1>7, <1>8

LEMMA IntakeStep == TypeOK /\ EditsDeclared /\ IntakeInv /\ [Next]_vars => IntakeInv'
<1> SUFFICES ASSUME TypeOK, EditsDeclared, IntakeInv, [Next]_vars
             PROVE  IntakeInv'
  OBVIOUS
<1>1. Declared \subseteq Declared'
  BY DeclaredGrows
<1>2. ASSUME NEW u \in Upload, Clean(u) \/ SaveUpload(u) \/ PutUpload(u) \/ Ingest(u)
      PROVE  IntakeInv'
  BY <1>2, CleanKeeps, PrepareKeeps, IngestKeeps
<1>3. ASSUME NEW p \in Upload \cup {Reconciler}, Accept(p) \/ Fail(p)
      PROVE  IntakeInv'
  BY <1>3, AcceptKeeps, FailKeeps
<1> QED
  BY <1>1, <1>2, <1>3, ReconcileKeeps, OthersQuiet, QuietKeeps DEF Next

LEMMA IntakeInit == Init => EditsDeclared /\ IntakeInv
<1> SUFFICES ASSUME Init PROVE EditsDeclared /\ IntakeInv
  OBVIOUS
<1>1. /\ upload = [u \in Upload |-> "idle"] /\ holder = Nobody /\ files = None
      /\ due = 0 /\ unsynced = None
  BY DEF Init
<1>2. KindInv
  BY <1>1 DEF KindInv
<1>3. LockInv
  BY <1>1 DEF LockInv
<1>4. OrderInv /\ TreeInv
  BY <1>1 DEF OrderInv, TreeInv, Kept, Prepared
<1> QED
  BY <1>2, <1>3, <1>4 DEF IntakeInv, Init, EditsDeclared

\* The inductive invariant of intake: who holds the project lock, which tree it
\* prepares, and which uploads that tree and the accepted one still owe.
THEOREM IntakeInvariant == Spec => []IntakeInv
<1>1. Init => EditsDeclared
  BY IntakeInit
<1>2. TypeOK /\ EditsDeclared /\ [Next]_vars => EditsDeclared'
  BY EditsDeclaredStep
<1> QED
  BY <1>1, <1>2, IntakeInit, IntakeStep, TypeCorrect, PTL DEF Spec

\* However uploads, selections, edits and failures fall, the accepted source
\* loses no upload but to one that was confirmed or prepared before it.
THEOREM UploadsStay == Spec => []UploadsKept
<1>1. IntakeInv => UploadsKept
  BY DEF IntakeInv, TreeInv, Kept, UploadsKept
<1> QED
  BY <1>1, IntakeInvariant, PTL
=============================================================================
