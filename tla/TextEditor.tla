------------------------------ MODULE TextEditor ------------------------------
(***************************************************************************)
(* Editing a text file in the browser: components/FilePreview, the draft   *)
(* that EditorDraftProvider keeps outside the access gate, the gate, which *)
(* takes the page away when the session has expired, and navigation, which *)
(* useBlocker stops.  Other devices edit the same files, and answers are   *)
(* lost.                                                                   *)
(*                                                                         *)
(* A file's version is a hash of its content, so the text stands for both. *)
(***************************************************************************)
EXTENDS Naturals

CONSTANTS
  Name, Text, None,   \* neither a name nor a text
  MaxCommands   \* bound on what users do and on what the network loses

VARIABLES
  access,     \* what the gate knows: "unknown", "locked", "open"
  page,       \* the route: the file list or another
  editor,     \* the mounted FilePreview, or None
  slot,       \* the draft of EditorDraftProvider, or None
  text,       \* the server's files
  wire,       \* saves and loads the server has not answered
  saved,      \* history: each text that a save of this page put into a file
  left

vars == <<access, page, editor, slot, text, wire, saved, left>>
-----------------------------------------------------------------------------
Draft == [name : Name, info : Text, text : Text]
Pending == {"none", "close", "cancel", "reload"}
\* info is what the server said, seen is what the draft was begun from.
Editor == [name : Name, info : Text \cup {None}, seen : Text \cup {None}, editing : BOOLEAN,
           draft : Text \cup {None}, saving : BOOLEAN, reloading : BOOLEAN, conflict : BOOLEAN,
           pending : Pending, blocked : BOOLEAN, answer : Text \cup {"none", "asked", "failed", "conflict"}]
Request == [kind : {"load", "save"}, name : Name, base : Text \cup {None}, text : Text \cup {None},
            seen : Text \cup {None}, mine : BOOLEAN]

\* None is no value of the model, and answers that are no text differ from every text.
Distinct ==
  /\ None \notin Name \cup Text \cup Editor \cup Draft
  /\ {"none", "asked", "failed", "conflict"} \cap Text = {}
  /\ MaxCommands \in Nat

Load(f) == [kind |-> "load", name |-> f, base |-> None, text |-> None, seen |-> None, mine |-> TRUE]
Save(e) == [kind |-> "save", name |-> e.name, base |-> e.info, text |-> e.draft, seen |-> e.seen,
            mine |-> TRUE]
\* Nobody waits for these any more: a load is aborted, a save goes on.
Orphaned == {[r EXCEPT !.mine = FALSE] : r \in {q \in wire : q.kind = "save"}}

Empty(f) ==
  [name |-> f, info |-> None, seen |-> None, editing |-> FALSE, draft |-> None, saving |-> FALSE,
   reloading |-> FALSE, conflict |-> FALSE, pending |-> "none", blocked |-> FALSE, answer |-> "asked"]
Restored ==
  [Empty(slot.name) EXCEPT !.info = slot.info, !.seen = slot.info, !.editing = TRUE,
                           !.draft = slot.text, !.answer = "none"]

Init ==
  /\ access = "unknown" /\ page = "files" /\ editor = None /\ slot = None
  /\ text \in [Name -> Text] /\ wire = {} /\ saved = {} /\ left = MaxCommands

Spend == left > 0 /\ left' = left - 1
Command == Spend /\ editor # None
Dirty == editor.editing /\ editor.draft # editor.info
Working == editor.saving \/ editor.reloading
Asking == editor.pending # "none" \/ editor.blocked

Discarded(f) == IF slot # None /\ slot.name = f THEN None ELSE slot
-----------------------------------------------------------------------------
(* The gate and the routes.                                                *)

\* FilePreview loads a file that has no draft.
Mount(f) ==
  IF slot # None /\ slot.name = f THEN editor' = Restored /\ UNCHANGED wire
  ELSE editor' = Empty(f) /\ wire' = wire \cup {Load(f)}

\* The file list opens the preview of the draft that is kept; a restored draft keeps the
\* version it was based on, and nothing is loaded.
OpenFilesReloads ==
  /\ IF slot = None THEN editor' = None /\ UNCHANGED wire
     ELSE editor' = [Restored EXCEPT !.answer = "asked"] /\ wire' = wire \cup {Load(slot.name)}
OpenFilesBare == editor' = None /\ UNCHANGED wire
OpenFiles == IF slot = None THEN OpenFilesBare ELSE Mount(slot.name)

\* check, or login, lets the page in.
Unlock ==
  /\ access # "open" /\ access' = "open"
  /\ IF page = "files" THEN OpenFiles ELSE UNCHANGED <<editor, wire>>
  /\ UNCHANGED <<page, slot, text, saved, left>>
CheckDenies ==
  /\ access = "unknown" /\ access' = "locked"
  /\ UNCHANGED <<page, editor, slot, text, wire, saved, left>>

\* A request was answered 401 AUTH_REQUIRED: what is inside unmounts.
Lock ==
  /\ access = "open" /\ Spend
  /\ access' = "locked" /\ editor' = None /\ wire' = Orphaned
  /\ UNCHANGED <<page, slot, text, saved>>

\* The button, which an open preview covers.
Logout ==
  /\ access = "open" /\ editor = None /\ Spend
  /\ access' = "locked"
  /\ UNCHANGED <<page, editor, slot, text, wire, saved>>

\* A link, Back or Forward; unsaved or unfinished work blocks it.
Leave == page' = "other" /\ editor' = None /\ wire' = Orphaned
Navigate ==
  /\ Spend
  /\ \/ /\ editor # None /\ (Dirty \/ editor.saving) /\ ~editor.blocked
        /\ editor' = [editor EXCEPT !.blocked = TRUE] /\ UNCHANGED <<page, wire>>
     \/ /\ editor # None /\ ~Dirty /\ ~editor.saving
        /\ Leave
     \/ /\ editor = None /\ page = "files" /\ Leave
     \/ /\ page = "other" /\ page' = "files"
        /\ IF access = "open" THEN OpenFiles ELSE UNCHANGED <<editor, wire>>
  /\ UNCHANGED <<access, slot, text, saved>>

\* The effect that lets a blocked navigation go on when nothing is lost any more.
Proceed ==
  /\ editor # None /\ editor.blocked /\ ~Dirty /\ ~editor.saving
  /\ Leave
  /\ UNCHANGED <<access, slot, text, saved, left>>
-----------------------------------------------------------------------------
(* The editor.                                                             *)

OpenPreview(f) ==
  /\ Spend /\ access = "open" /\ page = "files" /\ editor = None
  /\ Mount(f)
  /\ UNCHANGED <<access, page, slot, text, saved>>
\* The effect's continuation, and reload's.
Loaded ==
  /\ editor # None /\ ~editor.saving /\ editor.answer \in Text \cup {"failed"}
  /\ \/ /\ editor.answer = "failed"
        /\ editor' = [editor EXCEPT !.answer = "none", !.reloading = FALSE] /\ UNCHANGED slot
     \/ /\ editor.answer \in Text /\ ~editor.reloading
        /\ editor' = [editor EXCEPT !.info = editor.answer, !.answer = "none"] /\ UNCHANGED slot
     \/ /\ editor.answer \in Text /\ editor.reloading
        /\ editor' = [editor EXCEPT !.info = editor.answer, !.draft = editor.answer, !.answer = "none",
                                    !.editing = FALSE, !.conflict = FALSE, !.reloading = FALSE]
        /\ slot' = Discarded(editor.name)
  /\ UNCHANGED <<access, page, text, wire, saved, left>>

Edit ==
  /\ Command /\ ~editor.editing /\ editor.info # None /\ ~editor.reloading
  /\ editor' = [editor EXCEPT !.editing = TRUE, !.draft = editor.info, !.seen = editor.info]
  /\ UNCHANGED <<access, page, slot, text, wire, saved>>

\* remember keeps what differs from the text it is based on.
TypeForgets(t) ==
  /\ Command /\ editor.editing /\ t # editor.draft /\ ~Working /\ ~Asking
  /\ editor' = [editor EXCEPT !.draft = t]
  /\ slot' = IF slot # None \/ t = editor.info THEN slot
             ELSE [name |-> editor.name, info |-> editor.info, text |-> t]
  /\ UNCHANGED <<access, page, text, wire, saved>>
Type(t) ==
  /\ Command /\ editor.editing /\ t # editor.draft /\ ~Working /\ ~Asking
  /\ editor' = [editor EXCEPT !.draft = t]
  /\ slot' = IF t = editor.info THEN None
             ELSE [name |-> editor.name, info |-> editor.info, text |-> t]
  /\ UNCHANGED <<access, page, text, wire, saved>>

\* requestAction asks before a draft is discarded, performAction does what was asked.
Perform(e, action) ==
  CASE action = "close" ->
         editor' = None /\ slot' = Discarded(e.name) /\ wire' = Orphaned
    [] action = "cancel" ->
         editor' = [e EXCEPT !.editing = FALSE] /\ slot' = Discarded(e.name) /\ UNCHANGED wire
    [] action = "reload" ->
         /\ editor' = [e EXCEPT !.reloading = TRUE, !.answer = "asked"]
         /\ wire' = wire \cup {Load(e.name)} /\ UNCHANGED slot
Offered(action) ==
  \/ action = "close"
  \/ action = "cancel" /\ editor.editing /\ ~Asking
  \/ action = "reload" /\ editor.conflict /\ ~Asking
RequestAction(action) ==
  /\ Command /\ ~Working /\ Offered(action)
  /\ \/ /\ action = "close" /\ Asking
        /\ editor' = [editor EXCEPT !.blocked = FALSE, !.pending = "none"] /\ UNCHANGED <<slot, wire>>
     \/ /\ ~Asking /\ Dirty
        /\ editor' = [editor EXCEPT !.pending = action] /\ UNCHANGED <<slot, wire>>
     \/ /\ ~Asking /\ ~Dirty /\ Perform(editor, action)
  /\ UNCHANGED <<access, page, text, saved>>
ConfirmDiscard ==
  /\ editor # None /\ ~Working /\ Asking
  /\ \/ /\ editor.blocked /\ Leave /\ slot' = Discarded(editor.name)
     \/ /\ ~editor.blocked /\ Perform([editor EXCEPT !.pending = "none"], editor.pending)
        /\ UNCHANGED page
  /\ UNCHANGED <<access, text, saved, left>>
KeepEditing ==
  /\ editor # None /\ ~Working /\ Asking
  /\ editor' = [editor EXCEPT !.blocked = FALSE, !.pending = "none"]
  /\ UNCHANGED <<access, page, slot, text, wire, saved, left>>
-----------------------------------------------------------------------------
(* Saving.                                                                 *)

Savable ==
  editor.editing /\ ~Working /\ ~Asking /\ Dirty /\ ~editor.conflict
SaveForgets ==
  /\ Command /\ Savable
  /\ editor' = [editor EXCEPT !.saving = TRUE, !.answer = "asked"]
  /\ wire' = wire \cup {Save(editor)} /\ slot' = Discarded(editor.name)
  /\ UNCHANGED <<access, page, text, saved>>
SaveText ==
  /\ Command /\ Savable
  /\ editor' = [editor EXCEPT !.saving = TRUE, !.answer = "asked"]
  /\ wire' = wire \cup {Save(editor)}
  /\ UNCHANGED <<access, page, slot, text, saved>>

Answer(r, a) == editor' = IF r.mine THEN [editor EXCEPT !.answer = a] ELSE editor

\* SaveText of the server replaces the content whose version it was sent.
Served(r) ==
  /\ r \in wire /\ wire' = wire \ {r}
  /\ \/ r.kind = "load" /\ Answer(r, text[r.name]) /\ UNCHANGED <<text, saved>>
     \/ /\ r.kind = "save" /\ text[r.name] = r.base
        /\ text' = [text EXCEPT ![r.name] = r.text] /\ saved' = saved \cup {<<r.name, r.text>>}
        /\ Answer(r, r.text)
     \/ /\ r.kind = "save" /\ text[r.name] # r.base
        /\ Answer(r, "conflict") /\ UNCHANGED <<text, saved>>
  /\ UNCHANGED <<access, page, slot, left>>
\* The editor is told of an error; the request may still be on its way.
Lost ==
  /\ Spend /\ editor # None /\ editor.answer = "asked"
  /\ editor' = [editor EXCEPT !.answer = "failed"] /\ wire' = Orphaned
  /\ UNCHANGED <<access, page, slot, text, saved>>

\* The continuation of save; an editor that was unmounted is not there to be told.
SaveTold ==
  /\ editor # None /\ editor.saving /\ editor.answer # "asked"
  /\ \/ /\ editor.answer \in Text
        /\ editor' = [editor EXCEPT !.info = editor.draft, !.editing = FALSE, !.conflict = FALSE,
                                    !.saving = FALSE, !.answer = "none"]
        /\ slot' = Discarded(editor.name)
     \/ /\ editor.answer \in {"failed", "conflict"}
        /\ editor' = [editor EXCEPT !.conflict = (editor.answer = "conflict"), !.saving = FALSE,
                                    !.answer = "none"]
        /\ UNCHANGED slot
  /\ UNCHANGED <<access, page, text, wire, saved, left>>

\* Another device edits a file.
Others ==
  /\ Spend /\ \E f \in Name, t \in Text : t # text[f] /\ text' = [text EXCEPT ![f] = t]
  /\ UNCHANGED <<access, page, editor, slot, wire, saved>>
-----------------------------------------------------------------------------
Next ==
  \/ Unlock \/ CheckDenies \/ Lock \/ Logout \/ Navigate \/ Proceed \/ Loaded \/ Edit \/ ConfirmDiscard
  \/ KeepEditing \/ SaveText \/ Lost \/ SaveTold \/ Others
  \/ \E f \in Name : OpenPreview(f)
  \/ \E t \in Text : Type(t)
  \/ \E action \in Pending \ {"none"} : RequestAction(action)
  \/ \E r \in wire : Served(r)

Spec == Init /\ [][Next]_vars

-----------------------------------------------------------------------------
TypeOK ==
  /\ access \in {"unknown", "locked", "open"} /\ page \in {"files", "other"}
  /\ editor = None \/ editor \in Editor
  /\ slot = None \/ slot \in Draft
  /\ text \in [Name -> Text] /\ wire \subseteq Request /\ saved \subseteq Name \X Text /\ left \in Nat

\* Whatever has been typed and not saved is where a login after an expired session finds
\* it, with the version it was based on (EditorDraftProvider.tsx:4, FilePreview.tsx:153).
UnsavedKept == editor # None /\ Dirty =>
  slot = [name |-> editor.name, info |-> editor.info, text |-> editor.draft]

\* A draft that is kept belongs to the editor that is open: none is ever behind another
\* file's, where the next key would replace it (FilesPage.tsx:54, FilePreview.tsx:19).
SlotOwned == slot # None /\ editor # None => slot.name = editor.name

\* A draft is given up only when the user confirmed that, or typed the text it began
\* from, or its text is in the file (FilePreview.tsx:93, 116; doc/transfer.md:52).
GivenUpKnowingly == slot # None /\ slot' = None =>
  \/ ConfirmDiscard \/ \E t \in Text : Type(t)
  \/ editor # None /\ editor.reloading
  \/ <<slot.name, slot.text>> \in saved

\* A save that is accepted replaces the very text the user began to edit, whoever else has
\* edited the file meanwhile, also after the session expired (FilePreview.tsx:126).
ReplacesWhatWasSeen == \A r \in wire \ wire' :
  r.kind = "save" /\ text'[r.name] # text[r.name] => text[r.name] = r.seen

\* A navigation that waits for a save goes on, or the user is asked about unsaved text
\* (FilePreview.tsx:40; doc/transfer.md:54).
BlockedSaving == editor # None /\ editor.blocked /\ editor.saving
GoesOnOrAsks == editor = None \/ ~editor.blocked \/ (~editor.saving /\ Dirty)
=============================================================================
