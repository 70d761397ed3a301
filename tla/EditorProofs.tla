----------------------------- MODULE EditorProofs -----------------------------
(***************************************************************************)
(* Proofs about TextEditor, for any number of files and texts: drafts are  *)
(* neither lost nor saved over what their user has not seen.               *)
(***************************************************************************)
EXTENDS TextEditor, TLAPS

\* The editor is there only on the open page, which has no draft beside it without one; a draft
\* that is kept differs from what it began from.
Placed ==
  /\ editor # None => access = "open" /\ page = "files"
  /\ editor = None /\ access = "open" /\ page = "files" => slot = None
  /\ slot # None => slot.text # slot.info

\* The slot holds the draft as long as it differs from what it began from, and nothing else.
Kept ==
  editor # None => slot =
    IF Dirty THEN [name |-> editor.name, info |-> editor.info, text |-> editor.draft] ELSE None

\* What is edited began from what the server last said.
Begun ==
  editor # None /\ editor.editing =>
    editor.info \in Text /\ editor.draft \in Text /\ editor.seen = editor.info

\* What the editor waits for, and what it has been told.
Waiting == editor # None =>
  /\ editor.answer # "none" => editor.saving \/ editor.reloading \/ editor.info = None
  /\ editor.saving => Dirty /\ ~editor.reloading
  /\ editor.saving /\ editor.answer \in Text => <<editor.name, editor.draft>> \in saved

\* The one request the editor waits for, and saves that were sent.
Sent == \A r \in wire :
  /\ r.mine =>
       /\ editor # None /\ editor.answer = "asked"
       /\ r = IF editor.saving THEN Save(editor) ELSE Load(editor.name)
  /\ r.kind = "save" => r.base = r.seen /\ r.base \in Text /\ r.text \in Text

Careful == TypeOK /\ Placed /\ Kept /\ Begun /\ Waiting /\ Sent
-----------------------------------------------------------------------------
\* A page that has just been loaded has no draft and waits for nothing.
LEMMA CarefulInit == ASSUME Distinct, Init PROVE Careful
  BY DEF Distinct, Init, Careful, TypeOK, Placed, Kept, Begun, Waiting, Sent

\* What the helpers make is what they say.
LEMMA Shapes ==
  ASSUME Distinct
  PROVE  /\ \A f \in Name : Empty(f) \in Editor /\ Load(f) \in Request
         /\ slot \in Draft => Restored \in Editor
         /\ \A e \in Editor : e.info \in Text \cup {None} /\ e.draft \in Text \cup {None} => Save(e) \in Request
         /\ \A e \in Editor : e # None
  BY DEF Distinct, Empty, Load, Restored, Save, Editor, Request, Draft, Pending

\* The editor leaves, or was not there, and nobody waits for what is sent.
LEMMA LeaveKeeps ==
  ASSUME Distinct, Careful, wire' \in {wire, Orphaned}, editor' = None,
         wire' = Orphaned \/ editor = None, UNCHANGED text, UNCHANGED saved, left' \in Nat
  PROVE  Sent' /\ Begun' /\ Waiting' /\ Kept' /\ wire' \subseteq Request
<1>1. \A r \in Orphaned : r \in Request /\ ~r.mine /\ r.kind = "save" /\ r.base = r.seen /\ r.base \in Text
                         /\ r.text \in Text
  BY DEF Careful, TypeOK, Sent, Orphaned, Request
<1>2. Sent' /\ wire' \subseteq Request
  BY <1>1 DEF Careful, TypeOK, Sent
<1> QED
  BY <1>2 DEF Begun, Waiting, Kept

\* A preview opens where none is.
LEMMA MountKeeps ==
  ASSUME Distinct, Careful, editor = None, NEW f \in Name, Mount(f),
         slot = None \/ slot.name = f, UNCHANGED <<text, slot, saved>>
  PROVE  /\ editor' \in Editor /\ editor' # None /\ wire' \subseteq Request
         /\ Sent' /\ Begun' /\ Waiting' /\ Kept'
<1>0. \A r \in wire : ~r.mine
  BY DEF Careful, Sent
<1>1. CASE slot # None /\ slot.name = f
  <2>1. slot \in Draft /\ editor' = Restored /\ wire' = wire
    BY <1>1 DEF Careful, TypeOK, Mount
  <2>2. editor' \in Editor /\ editor' # None
    BY <2>1, Shapes
  <2>3. /\ editor'.name = slot.name /\ editor'.info = slot.info /\ editor'.seen = slot.info
        /\ editor'.draft = slot.text /\ editor'.editing /\ ~editor'.saving /\ ~editor'.reloading
        /\ editor'.answer = "none"
    BY <2>1 DEF Restored, Empty
  <2>4. Kept'
    BY <1>1, <2>1, <2>3 DEF Kept, Dirty, Draft, Placed, Careful
  <2> QED
    BY <1>0, <2>1, <2>2, <2>3, <2>4 DEF Sent, Begun, Waiting, Draft, Careful, TypeOK
<1>2. CASE slot = None
  <2>1. editor' = Empty(f) /\ wire' = wire \cup {Load(f)}
    BY <1>2 DEF Mount
  <2>2. editor' \in Editor /\ editor' # None /\ Load(f) \in Request
    BY <2>1, Shapes
  <2>3. /\ editor'.name = f /\ editor'.info = None /\ ~editor'.editing /\ ~editor'.saving
        /\ ~editor'.reloading /\ editor'.answer = "asked"
    BY <2>1 DEF Empty
  <2>4. Load(f).kind = "load"
    BY DEF Load
  <2> QED
    BY <1>0, <1>2, <2>1, <2>2, <2>3, <2>4 DEF Sent, Begun, Waiting, Kept, Dirty, Careful, TypeOK
<1> QED
  BY <1>1, <1>2
-----------------------------------------------------------------------------
(* The gate and the routes.                                                *)

\* Letting the page in opens the preview of the draft, if one is kept.
LEMMA UnlockKeeps == ASSUME Distinct, Careful, Unlock PROVE Careful'
<1>0. editor = None
  BY DEF Careful, Placed, Unlock
<1>1. CASE page = "files" /\ slot # None
  <2>1. Mount(slot.name) /\ slot.name \in Name
    BY <1>1 DEF Unlock, OpenFiles, Careful, TypeOK, Draft
  <2>2. UNCHANGED <<text, slot, saved, page, left>> /\ access' = "open"
    BY DEF Unlock
  <2>3. /\ editor' \in Editor /\ editor' # None /\ wire' \subseteq Request
        /\ Sent' /\ Begun' /\ Waiting' /\ Kept'
    BY <1>0, <2>1, <2>2, MountKeeps
  <2> QED
    BY <1>1, <2>2, <2>3 DEF Careful, TypeOK, Placed
<1>2. CASE page # "files" \/ slot = None
  <2>1. editor' = None /\ wire' = wire /\ UNCHANGED <<text, slot, saved, page, left>> /\ access' = "open"
    BY <1>0, <1>2 DEF Unlock, OpenFiles, OpenFilesBare
  <2> QED
    BY <1>0, <1>2, <2>1 DEF Careful, TypeOK, Placed, Kept, Begun, Waiting, Sent
<1> QED
  BY <1>1, <1>2

\* A denied check changes no more than what the gate knows.
LEMMA CheckDeniesKeeps == ASSUME Distinct, Careful, CheckDenies PROVE Careful'
  BY DEF CheckDenies, Careful, TypeOK, Placed, Kept, Begun, Waiting, Sent, Dirty

\* An expired session takes the editor away and leaves the slot.
LEMMA LockKeeps == ASSUME Distinct, Careful, Lock \/ Logout PROVE Careful'
<1>1. wire' \in {wire, Orphaned} /\ editor' = None /\ (wire' = Orphaned \/ editor = None)
      /\ UNCHANGED <<text, saved, slot, page>> /\ left' \in Nat /\ access' = "locked"
  BY DEF Lock, Logout, Spend, Careful, TypeOK
<1>2. Sent' /\ Begun' /\ Waiting' /\ Kept' /\ wire' \subseteq Request
  BY <1>1, LeaveKeeps
<1> QED
  BY <1>1, <1>2 DEF Careful, TypeOK, Placed

\* Leaving the page takes the editor away, and its draft if that was confirmed.
LEMMA LeavingKeeps ==
  ASSUME Distinct, Careful, Leave, slot' \in {slot, None}, UNCHANGED <<access, text, saved>>, left' \in Nat
  PROVE  Careful'
<1>1. Sent' /\ Begun' /\ Waiting' /\ Kept' /\ wire' \subseteq Request
  BY LeaveKeeps DEF Leave
<1> QED
  BY <1>1 DEF Leave, Careful, TypeOK, Placed

\* Only a flag of the editor changes, one that says nothing of the draft.
LEMMA FlagKeeps ==
  ASSUME Distinct, Careful, editor # None, NEW b \in BOOLEAN, NEW p \in Pending,
         editor' = [editor EXCEPT !.blocked = b, !.pending = p],
         UNCHANGED <<access, page, slot, text, wire, saved>>, left' \in Nat
  PROVE  Careful'
<1>1. editor \in Editor
  BY DEF Careful, TypeOK
<1>2. editor' \in Editor /\ editor' # None
  BY <1>1 DEF Editor, Distinct
<1>3. /\ editor'.name = editor.name /\ editor'.info = editor.info /\ editor'.seen = editor.seen
      /\ editor'.draft = editor.draft /\ editor'.editing = editor.editing
      /\ editor'.saving = editor.saving /\ editor'.reloading = editor.reloading
      /\ editor'.answer = editor.answer
  BY <1>1 DEF Editor
<1>4. Kept' /\ Begun' /\ Waiting'
  BY <1>3, <1>2 DEF Kept, Begun, Waiting, Dirty, Careful
<1>5. Save(editor)' = Save(editor) /\ Load(editor.name)' = Load(editor.name)
  BY <1>3 DEF Save, Load
<1>6. Sent'
  BY <1>2, <1>3, <1>5 DEF Sent, Careful
<1> QED
  BY <1>2, <1>4, <1>6 DEF Careful, TypeOK, Placed

\* A navigation is stopped, or leaves, or comes back to the draft.
LEMMA NavigateKeeps == ASSUME Distinct, Careful, Navigate PROVE Careful'
<1>0. left' \in Nat /\ UNCHANGED <<access, slot, text, saved>>
  BY DEF Navigate, Spend, Careful, TypeOK
<1>1. CASE editor # None /\ editor' = [editor EXCEPT !.blocked = TRUE] /\ UNCHANGED <<page, wire>>
  <2>1. editor \in Editor
    BY <1>1 DEF Careful, TypeOK
  <2>2. editor' = [editor EXCEPT !.blocked = TRUE, !.pending = editor.pending] /\ editor.pending \in Pending
    BY <1>1, <2>1 DEF Editor
  <2> QED
    BY <1>0, <1>1, <2>2, FlagKeeps
<1>2. CASE Leave
  BY <1>0, <1>2, LeavingKeeps
<1>3. CASE page = "other" /\ page' = "files"
           /\ (IF access = "open" THEN OpenFiles ELSE UNCHANGED <<editor, wire>>)
  <2>0. editor = None
    BY <1>3 DEF Careful, Placed
  <2>1. CASE access = "open" /\ slot # None
    <3>1. Mount(slot.name) /\ slot.name \in Name
      BY <1>3, <2>1 DEF OpenFiles, Careful, TypeOK, Draft
    <3>2. /\ editor' \in Editor /\ editor' # None /\ wire' \subseteq Request
          /\ Sent' /\ Begun' /\ Waiting' /\ Kept'
      BY <1>0, <2>0, <3>1, MountKeeps
    <3> QED
      BY <1>0, <1>3, <2>1, <3>2 DEF Careful, TypeOK, Placed
  <2>2. CASE access # "open" \/ slot = None
    <3>1. editor' = None /\ wire' = wire
      BY <1>3, <2>0, <2>2 DEF OpenFiles, OpenFilesBare
    <3> QED
      BY <1>0, <1>3, <2>0, <2>2, <3>1 DEF Careful, TypeOK, Placed, Kept, Begun, Waiting, Sent
  <2> QED
    BY <2>1, <2>2
<1> QED
  BY <1>1, <1>2, <1>3 DEF Navigate

\* A stopped navigation goes on when there is no draft any more.
LEMMA ProceedKeeps == ASSUME Distinct, Careful, Proceed PROVE Careful'
<1>1. slot' = slot /\ UNCHANGED <<access, text, saved>> /\ left' \in Nat /\ Leave
  BY DEF Proceed, Careful, TypeOK
<1> QED
  BY <1>1, LeavingKeeps
-----------------------------------------------------------------------------
(* The editor.                                                             *)

\* Another preview opens only where no draft is kept.
LEMMA OpenPreviewKeeps == ASSUME Distinct, Careful, NEW f \in Name, OpenPreview(f) PROVE Careful'
<1>1. editor = None /\ slot = None /\ Mount(f) /\ UNCHANGED <<access, page, slot, text, saved>>
      /\ access = "open" /\ page = "files" /\ left' \in Nat
  BY DEF OpenPreview, Spend, Careful, TypeOK, Placed
<1>2. /\ editor' \in Editor /\ editor' # None /\ wire' \subseteq Request
      /\ Sent' /\ Begun' /\ Waiting' /\ Kept'
  BY <1>1, MountKeeps
<1> QED
  BY <1>1, <1>2 DEF Careful, TypeOK, Placed

\* A text that arrives is shown, and takes the place of the draft after a reload only.
LEMMA LoadedKeeps == ASSUME Distinct, Careful, Loaded PROVE Careful'
<1>1. /\ editor \in Editor /\ editor # None /\ ~editor.saving /\ editor.answer # "asked" /\ editor.answer # "none"
      /\ UNCHANGED <<access, page, text, wire, saved, left>>
  BY DEF Loaded, Careful, TypeOK, Distinct
<1>2. \A r \in wire : ~r.mine
  BY <1>1 DEF Careful, Sent
<1>3. CASE editor.answer = "failed"
  <2>1. editor' = [editor EXCEPT !.answer = "none", !.reloading = FALSE] /\ slot' = slot
    BY <1>3 DEF Loaded, Distinct
  <2>2. editor' \in Editor /\ editor' # None
    BY <1>1, <2>1 DEF Editor, Distinct
  <2>3. /\ editor'.name = editor.name /\ editor'.info = editor.info /\ editor'.seen = editor.seen
        /\ editor'.draft = editor.draft /\ editor'.editing = editor.editing
        /\ ~editor'.saving /\ editor'.answer = "none"
    BY <1>1, <2>1 DEF Editor
  <2> QED
    BY <1>1, <1>2, <2>1, <2>2, <2>3 DEF Careful, TypeOK, Placed, Kept, Begun, Waiting, Sent, Dirty
<1>4. CASE editor.answer \in Text /\ ~editor.reloading
  <2>1. editor' = [editor EXCEPT !.info = editor.answer, !.answer = "none"] /\ slot' = slot
    BY <1>4 DEF Loaded, Distinct
  <2>2. editor' \in Editor /\ editor' # None
    BY ZenonT(40), <1>1, <1>4, <2>1 DEF Editor, Distinct
  <2>3. ~editor.editing
    BY <1>1, <1>4 DEF Careful, Waiting, Begun, Distinct
  <2>4. ~editor'.editing /\ ~editor'.saving /\ editor'.answer = "none"
    BY <1>1, <2>1, <2>3 DEF Editor
  <2>5. slot = None
    BY <1>1, <2>3 DEF Careful, Kept, Dirty
  <2> QED
    BY <1>1, <1>2, <2>1, <2>2, <2>4, <2>5 DEF Careful, TypeOK, Placed, Kept, Begun, Waiting, Sent, Dirty
<1>5. CASE editor.answer \in Text /\ editor.reloading
  <2>1. editor' = [editor EXCEPT !.info = editor.answer, !.draft = editor.answer, !.answer = "none",
                                 !.editing = FALSE, !.conflict = FALSE, !.reloading = FALSE]
        /\ slot' = Discarded(editor.name)
    BY <1>5 DEF Loaded, Distinct
  <2> DEFINE e1 == [editor EXCEPT !.info = editor.answer, !.draft = editor.answer, !.answer = "none"]
  <2>a. e1 \in Editor
    BY <1>1, <1>5 DEF Editor
  <2>b. editor' = [e1 EXCEPT !.editing = FALSE, !.conflict = FALSE, !.reloading = FALSE]
    BY <1>1, <2>1 DEF Editor
  <2>2. editor' \in Editor /\ editor' # None
    <3> HIDE DEF e1
    <3>1. editor' \in Editor
      BY <2>a, <2>b DEF Editor
    <3> QED
      BY <3>1 DEF Distinct
  <2>3. ~editor'.editing /\ ~editor'.saving /\ editor'.answer = "none"
    BY <1>1, <2>1 DEF Editor
  <2>4. slot' = None
    BY <1>1, <2>1 DEF Careful, Kept, Discarded
  <2> QED
    BY <1>1, <1>2, <2>2, <2>3, <2>4 DEF Careful, TypeOK, Placed, Kept, Begun, Waiting, Sent, Dirty
<1> QED
  BY <1>3, <1>4, <1>5 DEF Loaded

\* Editing begins from the text that is shown.
LEMMA EditKeeps == ASSUME Distinct, Careful, Edit PROVE Careful'
<1>1. /\ editor \in Editor /\ editor # None /\ ~editor.editing /\ editor.info \in Text
      /\ ~editor.reloading /\ left' \in Nat /\ UNCHANGED <<access, page, slot, text, wire, saved>>
      /\ editor' = [editor EXCEPT !.editing = TRUE, !.draft = editor.info, !.seen = editor.info]
  BY DEF Edit, Command, Spend, Careful, TypeOK, Editor
<1>2. editor' \in Editor /\ editor' # None
  BY <1>1 DEF Editor, Distinct
<1>3. ~editor.saving /\ editor.answer = "none"
  BY <1>1 DEF Careful, Waiting, Dirty, Distinct
<1>4. /\ editor'.info = editor.info /\ editor'.seen = editor.info /\ editor'.draft = editor.info
      /\ editor'.editing /\ ~editor'.saving /\ editor'.answer = "none"
  BY <1>1, <1>3 DEF Editor
<1>5. slot = None /\ \A r \in wire : ~r.mine
  BY <1>1, <1>3 DEF Careful, Kept, Dirty, Sent
<1> QED
  BY <1>1, <1>2, <1>4, <1>5 DEF Careful, TypeOK, Placed, Kept, Begun, Waiting, Sent, Dirty

\* Every key brings the slot up to date.
LEMMA TypeKeeps == ASSUME Distinct, Careful, NEW t \in Text, Type(t) PROVE Careful'
<1>1. /\ editor \in Editor /\ editor # None /\ editor.editing /\ ~Working
      /\ left' \in Nat /\ UNCHANGED <<access, page, text, wire, saved>>
      /\ editor' = [editor EXCEPT !.draft = t]
      /\ slot' = IF t = editor.info THEN None
                ELSE [name |-> editor.name, info |-> editor.info, text |-> t]
  BY DEF Type, Command, Spend, Careful, TypeOK
<1>2. editor' \in Editor /\ editor' # None
  BY <1>1 DEF Editor, Distinct
<1>3. ~editor.saving /\ ~editor.reloading /\ editor.info \in Text /\ editor.seen = editor.info
  BY <1>1 DEF Working, Careful, Begun
<1>4. editor.answer = "none" /\ \A r \in wire : ~r.mine
  BY <1>1, <1>3 DEF Careful, Waiting, Sent, Distinct
<1>5. /\ editor'.name = editor.name /\ editor'.info = editor.info /\ editor'.seen = editor.seen
      /\ editor'.draft = t /\ editor'.editing /\ ~editor'.saving /\ editor'.answer = "none"
  BY <1>1, <1>3, <1>4 DEF Editor
<1>6. Kept'
  BY <1>1, <1>2, <1>5 DEF Kept, Dirty
<1>7. slot' = None \/ (slot' \in Draft /\ slot'.text # slot'.info)
  BY <1>1, <1>3 DEF Draft, Editor
<1> QED
  BY <1>1, <1>2, <1>3, <1>4, <1>5, <1>6, <1>7 DEF Careful, TypeOK, Placed, Begun, Waiting, Sent

\* What was asked for is done: the draft, if there is one, goes with it, or stays with a reload.
LEMMA PerformKeeps ==
  ASSUME Distinct, Careful, editor # None, ~Working, NEW p \in Pending, NEW action \in Pending \ {"none"},
         Perform([editor EXCEPT !.pending = p], action),
         UNCHANGED <<access, page, text, saved>>, left' \in Nat
  PROVE  Careful'
<1> DEFINE e == [editor EXCEPT !.pending = p]
<1>1. editor \in Editor
  BY DEF Careful, TypeOK
<1>2. e \in Editor
  BY <1>1 DEF Editor
<1>3. /\ e.name = editor.name /\ e.info = editor.info /\ e.seen = editor.seen /\ e.draft = editor.draft
      /\ e.editing = editor.editing /\ e.saving = FALSE /\ e.reloading = FALSE /\ e.answer = editor.answer
      /\ ~editor.saving /\ editor.name \in Name
  BY <1>1 DEF Editor, Working
<1>4. Discarded(e.name) = None
  BY <1>3 DEF Discarded, Careful, Kept
<1>5. \A r \in wire : r.mine => r = Load(editor.name) /\ editor.answer = "asked"
  BY <1>3 DEF Careful, Sent
<1> HIDE DEF e
<1>6. CASE action = "close"
  <2>1. editor' = None /\ slot' = None /\ wire' = Orphaned
    BY <1>4, <1>6 DEF Perform, e
  <2>2. Sent' /\ Begun' /\ Waiting' /\ Kept' /\ wire' \subseteq Request
    BY <2>1, LeaveKeeps
  <2> QED
    BY <2>1, <2>2 DEF Careful, TypeOK, Placed
<1>7. CASE action = "cancel"
  <2>1. editor' = [e EXCEPT !.editing = FALSE] /\ slot' = None /\ wire' = wire
    BY <1>4, <1>7 DEF Perform, e
  <2>2. editor' \in Editor /\ editor' # None
    BY <1>2, <2>1 DEF Editor, Distinct
  <2>3. /\ editor'.name = editor.name /\ editor'.info = editor.info /\ ~editor'.editing
        /\ ~editor'.saving /\ ~editor'.reloading /\ editor'.answer = editor.answer
    BY <1>2, <1>3, <2>1 DEF Editor
  <2>4. Kept' /\ Begun'
    BY <2>1, <2>3 DEF Kept, Begun, Dirty
  <2>5. Waiting'
    BY <1>3, <2>3 DEF Waiting, Careful, Working
  <2>6. Sent'
    BY <1>5, <2>1, <2>2, <2>3 DEF Sent, Careful
  <2> QED
    BY <2>1, <2>2, <2>4, <2>5, <2>6 DEF Careful, TypeOK, Placed
<1>8. CASE action = "reload"
  <2>1. editor' = [e EXCEPT !.reloading = TRUE, !.answer = "asked"] /\ slot' = slot
        /\ wire' = wire \cup {Load(e.name)}
    BY <1>8 DEF Perform, e
  <2>2. editor' \in Editor /\ editor' # None
    BY ZenonT(40), <1>2, <2>1 DEF Editor, Distinct
  <2>3. /\ editor'.name = editor.name /\ editor'.info = editor.info /\ editor'.seen = editor.seen
        /\ editor'.draft = editor.draft /\ editor'.editing = editor.editing
        /\ ~editor'.saving /\ editor'.reloading /\ editor'.answer = "asked"
    BY <1>2, <1>3, <2>1 DEF Editor
  <2>4. Kept' /\ Begun'
    BY <2>1, <2>2, <2>3 DEF Kept, Begun, Dirty, Careful
  <2>5. Waiting'
    BY <2>3 DEF Waiting, Distinct
  <2>6. Load(e.name) \in Request /\ Load(e.name).kind = "load" /\ Load(e.name) = Load(editor'.name)
    BY <1>3, <2>3, Shapes DEF Load
  <2>7. \A r \in wire : r.mine => r = Load(editor'.name)
    BY <1>5, <2>3
  <2>8. \A r \in wire : r.kind = "save" => r.base = r.seen /\ r.base \in Text /\ r.text \in Text
    BY DEF Careful, Sent
  <2>9. Sent'
    BY <2>1, <2>2, <2>3, <2>6, <2>7, <2>8 DEF Sent
  <2> QED
    BY <2>1, <2>2, <2>4, <2>5, <2>6, <2>9 DEF Careful, TypeOK, Placed
<1> QED
  BY <1>6, <1>7, <1>8 DEF Pending

\* An action asks first when there is a draft.
LEMMA RequestActionKeeps ==
  ASSUME Distinct, Careful, NEW action \in Pending \ {"none"}, RequestAction(action) PROVE Careful'
<1>1. /\ editor \in Editor /\ editor # None /\ ~Working /\ left' \in Nat
      /\ UNCHANGED <<access, page, text, saved>>
  BY DEF RequestAction, Command, Spend, Careful, TypeOK
<1>2. CASE editor' = [editor EXCEPT !.blocked = FALSE, !.pending = "none"] /\ UNCHANGED <<slot, wire>>
  BY <1>1, <1>2, FlagKeeps DEF Pending
<1>3. CASE editor' = [editor EXCEPT !.pending = action] /\ UNCHANGED <<slot, wire>>
  <2>1. editor' = [editor EXCEPT !.blocked = editor.blocked, !.pending = action]
        /\ editor.blocked \in BOOLEAN
    BY <1>1, <1>3 DEF Editor
  <2> QED
    BY <1>1, <1>3, <2>1, FlagKeeps
<1>4. CASE Perform(editor, action)
  <2>1. editor = [editor EXCEPT !.pending = editor.pending] /\ editor.pending \in Pending
    BY <1>1 DEF Editor
  <2>2. Perform([editor EXCEPT !.pending = editor.pending], action)
    BY <1>4, <2>1
  <2> QED
    BY <1>1, <2>1, <2>2, PerformKeeps
<1> QED
  BY <1>2, <1>3, <1>4 DEF RequestAction

\* A confirmed action does away with the draft.
LEMMA ConfirmDiscardKeeps == ASSUME Distinct, Careful, ConfirmDiscard PROVE Careful'
<1>1. /\ editor \in Editor /\ editor # None /\ ~Working /\ Asking /\ left' \in Nat
      /\ UNCHANGED <<access, text, saved>>
  BY DEF ConfirmDiscard, Careful, TypeOK
<1>2. CASE Leave /\ slot' = Discarded(editor.name)
  <2>1. slot' \in {slot, None}
    BY <1>2 DEF Discarded
  <2> QED
    BY <1>1, <1>2, <2>1, LeavingKeeps
<1>3. CASE ~editor.blocked /\ Perform([editor EXCEPT !.pending = "none"], editor.pending)
           /\ UNCHANGED page
  <2>1. editor.pending \in Pending \ {"none"} /\ "none" \in Pending
    BY <1>1, <1>3 DEF Asking, Editor, Pending
  <2> QED
    BY <1>1, <1>3, <2>1, PerformKeeps
<1> QED
  BY <1>2, <1>3 DEF ConfirmDiscard

\* Going on with editing changes flags only.
LEMMA KeepEditingKeeps == ASSUME Distinct, Careful, KeepEditing PROVE Careful'
<1>1. /\ editor # None /\ left' \in Nat /\ "none" \in Pending
      /\ editor' = [editor EXCEPT !.blocked = FALSE, !.pending = "none"]
      /\ UNCHANGED <<access, page, slot, text, wire, saved>>
  BY DEF KeepEditing, Careful, TypeOK, Pending
<1> QED
  BY <1>1, FlagKeeps
-----------------------------------------------------------------------------
(* Saving.                                                                 *)

\* A save sends the draft with the version it began from, and keeps it.
LEMMA SaveTextKeeps == ASSUME Distinct, Careful, SaveText PROVE Careful'
<1>1. /\ editor \in Editor /\ editor # None /\ editor.editing /\ ~Working /\ Dirty /\ left' \in Nat
      /\ editor' = [editor EXCEPT !.saving = TRUE, !.answer = "asked"]
      /\ wire' = wire \cup {Save(editor)}
      /\ UNCHANGED <<access, page, slot, text, saved>>
  BY DEF SaveText, Savable, Command, Spend, Careful, TypeOK
<1>2. editor' \in Editor /\ editor' # None
  <2> DEFINE e1 == [editor EXCEPT !.saving = TRUE]
  <2>a. e1 \in Editor /\ editor' = [e1 EXCEPT !.answer = "asked"]
    <3>1. editor \in Editor /\ editor' = [editor EXCEPT !.saving = TRUE, !.answer = "asked"]
      BY <1>1
    <3> QED
      BY <3>1 DEF Editor
  <2> HIDE DEF e1
  <2>1. editor' \in Editor
    BY <2>a DEF Editor
  <2> QED
    BY <2>1 DEF Distinct
<1>3. /\ editor'.name = editor.name /\ editor'.info = editor.info /\ editor'.seen = editor.seen
      /\ editor'.draft = editor.draft /\ editor'.editing /\ editor'.saving
      /\ editor'.reloading = FALSE /\ editor'.answer = "asked"
  BY <1>1 DEF Editor, Working
<1>4. editor.info \in Text /\ editor.draft \in Text /\ editor.seen = editor.info
  BY <1>1 DEF Careful, Begun
<1>5. \A r \in wire : ~r.mine
  BY <1>1, <1>4 DEF Careful, Sent, Waiting, Working, Distinct
<1>6. Save(editor) \in Request /\ Save(editor) = Save(editor')
  BY <1>1, <1>3, <1>4, Shapes DEF Save
<1>7. Save(editor).base = Save(editor).seen /\ Save(editor).base \in Text /\ Save(editor).text \in Text
  BY <1>4 DEF Save
<1>8. Sent'
  BY <1>1, <1>2, <1>3, <1>5, <1>6, <1>7 DEF Sent, Careful
<1>9. Kept' /\ Begun'
  BY <1>1, <1>2, <1>3, <1>4 DEF Kept, Begun, Dirty, Careful
<1>10. Waiting'
  BY <1>1, <1>3 DEF Waiting, Dirty, Distinct
<1> QED
  BY <1>1, <1>2, <1>6, <1>8, <1>9, <1>10 DEF Careful, TypeOK, Placed

\* The answer arrives, and the rest of the editor is what it was.
LEMMA AnsweredKeeps ==
  ASSUME Distinct, Careful, editor # None, NEW a \in Text \cup {"failed", "conflict"},
         editor.answer = "asked", editor' = [editor EXCEPT !.answer = a],
         editor.saving /\ a \in Text => <<editor.name, editor.draft>> \in saved',
         \A r \in wire' : /\ r \in Request /\ ~r.mine
                          /\ r.kind = "save" => r.base = r.seen /\ r.base \in Text /\ r.text \in Text,
         UNCHANGED <<access, page, slot>>, text' \in [Name -> Text], saved' \subseteq Name \X Text,
         left' \in Nat
  PROVE  Careful'
<1>1. editor \in Editor
  BY DEF Careful, TypeOK
<1>2. editor' \in Editor /\ editor' # None
  BY <1>1 DEF Editor, Distinct
<1>3. /\ editor'.name = editor.name /\ editor'.info = editor.info /\ editor'.seen = editor.seen
      /\ editor'.draft = editor.draft /\ editor'.editing = editor.editing
      /\ editor'.saving = editor.saving /\ editor'.reloading = editor.reloading /\ editor'.answer = a
  BY <1>1 DEF Editor
<1>4. Kept' /\ Begun' /\ Sent'
  BY <1>2, <1>3 DEF Kept, Begun, Sent, Dirty, Careful
<1>5. Waiting'
  <2>1. editor.saving \/ editor.reloading \/ editor.info = None
    BY DEF Careful, Waiting
  <2>2. editor.saving => Dirty /\ ~editor.reloading
    BY DEF Careful, Waiting
  <2> QED
    BY <1>3, <2>1, <2>2 DEF Waiting, Dirty
<1> QED
  BY <1>2, <1>4, <1>5 DEF Careful, TypeOK, Placed

\* The server answers the one request that is waited for, or an orphan.
LEMMA ServedKeeps == ASSUME Distinct, Careful, NEW r \in wire, Served(r) PROVE Careful'
<1>1. /\ r \in Request /\ wire' = wire \ {r} /\ left' \in Nat
      /\ UNCHANGED <<access, page, slot>>
      /\ editor = None \/ editor \in Editor
  BY DEF Served, Careful, TypeOK
<1>2. r.kind = "save" => r.base = r.seen /\ r.base \in Text /\ r.text \in Text
  BY DEF Careful, Sent
<1>3. text' \in [Name -> Text] /\ saved' \subseteq Name \X Text /\ saved \subseteq saved'
  BY <1>1, <1>2 DEF Served, Careful, TypeOK, Request
<1>4. CASE ~r.mine
  <2>1. editor' = editor
    BY <1>4 DEF Served, Answer
  <2>2. Kept' /\ Begun' /\ Waiting' /\ Sent'
    BY <1>1, <1>3, <2>1 DEF Kept, Begun, Waiting, Sent, Dirty, Save, Load, Careful
  <2> QED
    BY <1>1, <1>3, <2>1, <2>2 DEF Careful, TypeOK, Placed
<1>5. CASE r.mine
  <2>1. /\ editor # None /\ editor.answer = "asked"
        /\ r = IF editor.saving THEN Save(editor) ELSE Load(editor.name)
    BY <1>5 DEF Careful, Sent
  <2>2. \A q \in wire' : /\ q \in Request /\ ~q.mine
                         /\ q.kind = "save" => q.base = q.seen /\ q.base \in Text /\ q.text \in Text
    BY <1>1, <2>1 DEF Careful, Sent, TypeOK
  <2>3. PICK a \in Text \cup {"failed", "conflict"} :
          /\ editor' = [editor EXCEPT !.answer = a]
          /\ editor.saving /\ a \in Text => <<editor.name, editor.draft>> \in saved'
    <3>1. CASE r.kind = "load" /\ Answer(r, text[r.name])
      <4>1. text[r.name] \in Text /\ ~editor.saving
        BY <1>1, <2>1, <3>1 DEF Careful, TypeOK, Request, Save
      <4> QED
        BY <1>5, <3>1, <4>1 DEF Answer
    <3>2. CASE r.kind = "save" /\ Answer(r, r.text) /\ saved' = saved \cup {<<r.name, r.text>>}
      <4>1. r = Save(editor) /\ r.text \in Text
        BY <1>2, <2>1, <3>2 DEF Load
      <4>2. <<editor.name, editor.draft>> \in saved'
        BY <3>2, <4>1 DEF Save
      <4> QED
        BY <1>5, <3>2, <4>1, <4>2 DEF Answer
    <3>3. CASE Answer(r, "conflict")
      BY <1>5, <3>3 DEF Answer, Distinct
    <3> QED
      BY <3>1, <3>2, <3>3 DEF Served
  <2> QED
    BY <1>1, <1>3, <2>1, <2>2, <2>3, AnsweredKeeps
<1> QED
  BY <1>4, <1>5

\* A lost request orphans its save, which may still be served.
LEMMA LostKeeps == ASSUME Distinct, Careful, Lost PROVE Careful'
<1>1. /\ editor # None /\ editor.answer = "asked" /\ editor' = [editor EXCEPT !.answer = "failed"]
      /\ wire' = Orphaned /\ UNCHANGED <<access, page, slot, text, saved>> /\ left' \in Nat
      /\ text \in [Name -> Text] /\ saved \subseteq Name \X Text
  BY DEF Lost, Spend, Careful, TypeOK
<1>2. \A r \in Orphaned : /\ r \in Request /\ ~r.mine
                          /\ r.kind = "save" => r.base = r.seen /\ r.base \in Text /\ r.text \in Text
  BY DEF Careful, TypeOK, Sent, Orphaned, Request
<1> QED
  BY <1>1, <1>2, AnsweredKeeps DEF Distinct

\* The draft leaves the slot with the news that it was saved.
LEMMA SaveToldKeeps == ASSUME Distinct, Careful, SaveTold PROVE Careful'
<1>1. /\ editor \in Editor /\ editor # None /\ editor.saving /\ editor.answer # "asked"
      /\ UNCHANGED <<access, page, text, wire, saved, left>>
  BY DEF SaveTold, Careful, TypeOK
<1>2. Dirty /\ editor.editing /\ ~editor.reloading /\ editor.draft \in Text /\ \A r \in wire : ~r.mine
  BY <1>1 DEF Careful, Waiting, Dirty, Begun, Sent
<1>3. CASE /\ editor' = [editor EXCEPT !.info = editor.draft, !.editing = FALSE, !.conflict = FALSE,
                                       !.saving = FALSE, !.answer = "none"]
           /\ slot' = Discarded(editor.name)
  <2>1. editor' \in Editor
    <3> DEFINE e1 == [editor EXCEPT !.info = editor.draft, !.editing = FALSE]
    <3>1. e1 \in Editor
      BY <1>1, <1>2 DEF Editor
    <3>2. editor' = [e1 EXCEPT !.conflict = FALSE, !.saving = FALSE, !.answer = "none"]
      BY <1>1, <1>3 DEF Editor
    <3> HIDE DEF e1
    <3> QED
      BY <3>1, <3>2 DEF Editor
  <2>2. ~editor'.editing /\ ~editor'.saving /\ editor'.answer = "none" /\ editor' # None
    BY <1>1, <1>3, <2>1 DEF Editor, Distinct
  <2>3. slot' = None
    BY <1>1, <1>3 DEF Careful, Kept, Discarded
  <2>4. Kept' /\ Begun' /\ Waiting' /\ Sent'
    BY <1>1, <1>2, <2>2, <2>3 DEF Kept, Begun, Waiting, Sent, Dirty, Careful
  <2> QED
    BY <1>1, <2>1, <2>3, <2>4 DEF Careful, TypeOK, Placed
<1>4. CASE /\ editor' = [editor EXCEPT !.conflict = (editor.answer = "conflict"), !.saving = FALSE,
                                       !.answer = "none"]
           /\ UNCHANGED slot
  <2>1. editor' \in Editor /\ editor' # None
    <3> DEFINE e1 == [editor EXCEPT !.conflict = (editor.answer = "conflict")]
    <3>1. e1 \in Editor
      BY <1>1 DEF Editor
    <3>2. editor' = [e1 EXCEPT !.saving = FALSE, !.answer = "none"]
      BY <1>1, <1>4 DEF Editor
    <3> HIDE DEF e1
    <3>3. editor' \in Editor
      BY <3>1, <3>2 DEF Editor
    <3> QED
      BY <3>3 DEF Distinct
  <2>2. /\ editor'.name = editor.name /\ editor'.info = editor.info /\ editor'.seen = editor.seen
        /\ editor'.draft = editor.draft /\ editor'.editing = editor.editing
        /\ ~editor'.saving /\ editor'.answer = "none"
    BY <1>1, <1>4 DEF Editor
  <2>3. Kept' /\ Begun' /\ Waiting' /\ Sent'
    BY <1>1, <1>2, <1>4, <2>1, <2>2 DEF Kept, Begun, Waiting, Sent, Dirty, Careful
  <2> QED
    BY <1>1, <1>4, <2>1, <2>3 DEF Careful, TypeOK, Placed
<1> QED
  BY <1>3, <1>4 DEF SaveTold

\* Another device's edit changes no draft.
LEMMA OthersKeeps == ASSUME Distinct, Careful, Others PROVE Careful'
<1>1. text' \in [Name -> Text] /\ left' \in Nat /\ UNCHANGED <<access, page, editor, slot, wire, saved>>
  BY DEF Others, Spend, Careful, TypeOK
<1> QED
  BY <1>1 DEF Careful, TypeOK, Placed, Kept, Begun, Waiting, Sent, Dirty, Save, Load
-----------------------------------------------------------------------------
\* Every step keeps the invariant.
LEMMA StepKeeps == ASSUME Distinct, Careful, [Next]_vars PROVE Careful'
<1>1. CASE UNCHANGED vars
  BY <1>1 DEF vars, Careful, TypeOK, Placed, Kept, Begun, Waiting, Sent, Dirty, Save, Load
<1> QED
  BY <1>1, UnlockKeeps, CheckDeniesKeeps, LockKeeps, NavigateKeeps, ProceedKeeps, OpenPreviewKeeps,
     LoadedKeeps, EditKeeps, TypeKeeps, RequestActionKeeps, ConfirmDiscardKeeps, KeepEditingKeeps,
     SaveTextKeeps, ServedKeeps, LostKeeps, SaveToldKeeps, OthersKeeps DEF Next

\* What the invariant says of the slot.
LEMMA CarefulShows == Careful => TypeOK /\ UnsavedKept /\ SlotOwned
  BY DEF Careful, Kept, UnsavedKept, SlotOwned

\* A step that empties the slot has saved the draft, or is the user's own.
LEMMA StepGivesUpKnowingly == ASSUME Distinct, Careful, [Next]_vars PROVE GivenUpKnowingly
<1> SUFFICES ASSUME slot # None, slot' = None, ~ConfirmDiscard, ~\E t \in Text : Type(t),
                    ~(editor # None /\ editor.reloading)
             PROVE  <<slot.name, slot.text>> \in saved
  BY DEF GivenUpKnowingly
<1>1. ~UNCHANGED slot
  OBVIOUS
<1>2. CASE SaveTold
  <2>1. editor # None /\ editor.saving /\ editor.answer \in Text
    BY <1>1, <1>2 DEF SaveTold
  <2>2. <<editor.name, editor.draft>> \in saved
    BY <2>1 DEF Careful, Waiting
  <2>3. slot.name = editor.name /\ slot.text = editor.draft
    BY <2>1 DEF Careful, Kept
  <2> QED
    BY <2>2, <2>3
<1>3. CASE \E action \in Pending \ {"none"} : RequestAction(action)
  <2>1. editor # None /\ ~Dirty
    BY <1>1, <1>3 DEF RequestAction, Command
  <2> QED
    BY <2>1 DEF Careful, Kept
<1> QED
  BY <1>1, <1>2, <1>3 DEF Next, vars, Unlock, CheckDenies, Lock, Logout, Navigate, Proceed, Loaded,
     Edit, KeepEditing, SaveText, Lost, Others, OpenPreview, Served

\* A step that serves a save replaces what the draft began from.
LEMMA StepReplacesWhatWasSeen == ASSUME Distinct, Careful, [Next]_vars PROVE ReplacesWhatWasSeen
<1> SUFFICES ASSUME NEW r \in wire, r \notin wire', r.kind = "save", text'[r.name] # text[r.name]
             PROVE  text[r.name] = r.seen
  BY DEF ReplacesWhatWasSeen
<1>1. r.base = r.seen
  BY DEF Careful, Sent
<1>2. PICK q \in wire : Served(q)
  BY DEF Next, vars, Unlock, CheckDenies, Lock, Logout, Navigate, Leave, Proceed, Loaded, Edit, Type,
     KeepEditing, SaveText, Lost, SaveTold, Others, OpenPreview, RequestAction, ConfirmDiscard
<1>3. q = r
  BY <1>2 DEF Served
<1> QED
  BY <1>1, <1>2, <1>3 DEF Served

\* The invariant holds in every reachable state.
THEOREM AlwaysCareful == ASSUME Distinct PROVE Spec => []Careful
  BY CarefulInit, StepKeeps, PTL DEF Spec

\* However often the session expires, the page is left or the server is edited by others, what
\* was typed and not saved is in the slot (EditorDraftProvider.tsx:4, FilePreview.tsx:153).
THEOREM UnsavedIsKept == ASSUME Distinct PROVE Spec => []UnsavedKept
  BY CarefulShows, AlwaysCareful, PTL

\* The draft in the slot is that of the editor that is open (FilesPage.tsx:54).
THEOREM SlotIsOwned == ASSUME Distinct PROVE Spec => []SlotOwned
  BY CarefulShows, AlwaysCareful, PTL

\* No step but the user's own, and the news that it was saved, empties the slot
\* (FilePreview.tsx:93, 116).
THEOREM DraftsGivenUpKnowingly == ASSUME Distinct PROVE Spec => [][GivenUpKnowingly]_vars
  BY StepGivesUpKnowingly, AlwaysCareful, PTL DEF Spec

\* What a save replaces is what the draft began from, whoever else writes and whenever the save
\* arrives (FilePreview.tsx:126; service/file.go).
THEOREM SavesReplaceWhatWasSeen == ASSUME Distinct PROVE Spec => [][ReplacesWhatWasSeen]_vars
  BY StepReplacesWhatWasSeen, AlwaysCareful, PTL DEF Spec
=============================================================================
