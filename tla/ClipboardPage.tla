----------------------------- MODULE ClipboardPage -----------------------------
(***************************************************************************)
(* The shared clipboard as one device shows it: pages/Clipboard, over the  *)
(* fetching of RemoteData, while other devices publish and delete.         *)
(*                                                                         *)
(*   operation   idle -> asking -> told -> refreshing -> idle              *)
(*               asking -> idle when it is refused or no answer comes      *)
(***************************************************************************)
EXTENDS Integers, Sequences, SequencesExt

CONSTANTS
  Id,           \* records
  None, NotModified, Failed,
  MaxEntries,   \* CLIPBOARD_MAX_ENTRIES, of the page and of the server
  MaxCommands   \* bound on what users do and on what the network loses

VARIABLES
  entries, loading, flights, cycle, mounted, visible,
  etag,           \* etag.current
  op,             \* operation.current and the mutation that runs
  confirming, confirmingAll, copying, manualCopy, previewing,
  selecting,      \* text is selected on the page
  truth,          \* the server's history, newest first
  used,           \* history: records that were ever published
  wire,           \* mutations the server has not seen
  gone,           \* history: records this page was told are deleted
  left

remote == <<entries, loading, flights, cycle, etag>>
dialogs == <<confirming, confirmingAll, copying, manualCopy, previewing>>
server == <<truth, used, wire>>
vars == <<remote, dialogs, server, mounted, visible, op, selecting, gone, left>>
-----------------------------------------------------------------------------
List == INSTANCE RemoteData WITH data <- entries

\* What stands for an answer is none, and differs from another.
Distinct ==
  /\ None # NotModified /\ None # Failed /\ NotModified # Failed /\ None \notin Id
  /\ \A a \in {None, NotModified, Failed} : a \notin Seq(Id)
  /\ MaxEntries \in Nat \ {0} /\ MaxCommands \in Nat
Mutation == [kind : {"publish", "delete", "clear"}, id : Id \cup {None}]
NoOp == [pc |-> "idle", ask |-> None, result |-> {}]
Busy == op.pc # "idle"
Shown == ToSet(entries)
Paused ==
  Busy \/ confirming # None \/ confirmingAll \/ copying # None \/ manualCopy # None \/ previewing

\* The first list fills in for the data the page starts with.
Init ==
  /\ entries = <<>> /\ loading = TRUE /\ flights = {List!Fetch(FALSE, None)} /\ cycle = "off"
  /\ mounted = TRUE /\ visible = TRUE /\ etag = None /\ op = NoOp
  /\ confirming = None /\ confirmingAll = FALSE /\ copying = None /\ manualCopy = None
  /\ previewing = FALSE /\ selecting = FALSE
  /\ \E e \in Id : truth = <<e>> /\ used = {e}
  /\ wire = {} /\ gone = {} /\ left = MaxCommands

Spend == left > 0 /\ left' = left - 1
Command == Spend /\ mounted /\ ~previewing
-----------------------------------------------------------------------------
(* A mutation.                                                             *)

Newest(e, list) == SubSeq(<<e>> \o list, 1, IF Len(list) < MaxEntries THEN Len(list) + 1 ELSE MaxEntries)

\* The filter of removeEntry.
Without(e, list) ==
  LET kept[n \in 0 .. Len(list)] ==
        IF n = 0 THEN <<>> ELSE IF list[n] = e THEN kept[n - 1] ELSE Append(kept[n - 1], list[n])
  IN kept[Len(list)]

\* runMutation up to its request.
RunMutation(m) ==
  /\ op' = [pc |-> "asking", ask |-> m, result |-> {}] /\ wire' = wire \cup {m}
  /\ List!Cancel
Asks(m) ==
  /\ Command /\ ~Busy /\ RunMutation(m)
  /\ UNCHANGED <<entries, cycle, etag, dialogs, truth, used, mounted, visible, selecting, gone>>
Publish == Asks([kind |-> "publish", id |-> None])
RemoveEntry == confirming \in Shown /\ Asks([kind |-> "delete", id |-> confirming])
ClearAll == confirmingAll /\ ~loading /\ Asks([kind |-> "clear", id |-> None])

Awaited(m) == op.pc = "asking" /\ op.ask = m
Answered(m, ids) == op' = IF Awaited(m) THEN [op EXCEPT !.pc = "told", !.result = ids] ELSE op
MutationServed(m) ==
  /\ m \in wire /\ wire' = wire \ {m}
  /\ \/ /\ m.kind = "publish"
        /\ \E e \in Id \ used :
             /\ truth' = Newest(e, truth) /\ used' = used \cup {e}
             /\ Answered(m, {e})
     \/ /\ m.kind = "delete" /\ m.id \in ToSet(truth)
        /\ truth' = Without(m.id, truth) /\ UNCHANGED used
        /\ Answered(m, {m.id})
     \/ /\ m.kind = "delete" /\ m.id \notin ToSet(truth)
        /\ op' = IF Awaited(m) THEN NoOp ELSE op
        /\ UNCHANGED <<truth, used>>
     \/ /\ m.kind = "clear"
        /\ truth' = <<>> /\ UNCHANGED used
        /\ Answered(m, ToSet(truth))
  /\ UNCHANGED <<remote, dialogs, mounted, visible, selecting, gone, left>>

\* The catch block: the request may still be on its way.
MutationFails ==
  /\ op.pc = "asking" /\ Spend /\ op' = NoOp
  /\ \/ UNCHANGED wire
     \/ wire' = wire \ {op.ask}
  /\ UNCHANGED <<remote, dialogs, truth, used, mounted, visible, selecting, gone>>

\* The continuation: the page shows what the mutation did, drops its tag and loads again.
Edited ==
  CASE op.ask.kind = "publish" -> Newest(CHOOSE e \in op.result : TRUE, entries)
    [] op.ask.kind = "delete" -> Without(op.ask.id, entries)
    [] OTHER -> <<>>
Closed ==
  /\ confirmingAll' = FALSE
  /\ IF op.ask.kind = "publish" THEN UNCHANGED <<confirming, manualCopy>>
     ELSE /\ confirming' = None
          /\ manualCopy' = IF op.ask.kind = "clear" \/ manualCopy = op.ask.id THEN None ELSE manualCopy
MutationSucceeds ==
  /\ op.pc = "told" /\ mounted
  /\ etag' = None /\ entries' = Edited /\ List!Refresh /\ Closed
  /\ op' = [op EXCEPT !.pc = "refreshing"]
  /\ gone' = IF op.ask.kind = "publish" THEN gone ELSE gone \cup op.result
  /\ UNCHANGED <<cycle, copying, previewing, server, mounted, visible, selecting, left>>
MutationEnds ==
  /\ (op.pc = "told" /\ ~mounted) \/ (op.pc = "refreshing" /\ List!Live = {})
  /\ op' = NoOp
  /\ UNCHANGED <<remote, dialogs, server, mounted, visible, selecting, gone, left>>
-----------------------------------------------------------------------------
(* The other buttons.                                                      *)

ManualRefresh ==
  /\ Command /\ ~Busy /\ ~loading
  /\ confirmingAll' = FALSE /\ List!Refresh
  /\ UNCHANGED <<entries, cycle, etag, confirming, copying, manualCopy, previewing, server, mounted,
                 visible, op, selecting, gone>>

AskDelete(e) ==
  /\ Command /\ ~Busy /\ e \in Shown /\ e # confirming
  /\ confirming' = e /\ List!CancelBackground
  /\ UNCHANGED <<entries, loading, cycle, etag, confirmingAll, copying, manualCopy, previewing, server,
                 mounted, visible, op, selecting, gone>>
AskClear ==
  /\ Command /\ ~Busy /\ ~loading /\ entries # <<>>
  /\ confirming' = None /\ confirmingAll' = TRUE /\ List!CancelBackground
  /\ UNCHANGED <<entries, loading, cycle, etag, copying, manualCopy, previewing, server, mounted,
                 visible, op, selecting, gone>>
Reconsider ==
  /\ Command /\ ~Busy
  /\ \/ confirming \in Shown /\ confirming' = None /\ UNCHANGED confirmingAll
     \/ confirmingAll /\ ~loading /\ confirmingAll' = FALSE /\ UNCHANGED confirming
  /\ UNCHANGED <<remote, copying, manualCopy, previewing, server, mounted, visible, op, selecting, gone>>

\* copy, whose text is shown to be copied by hand when the browser refuses.
Copy(e) ==
  /\ Command /\ copying = None /\ e \in Shown
  /\ copying' = e /\ List!CancelBackground
  /\ UNCHANGED <<entries, loading, cycle, etag, confirming, confirmingAll, manualCopy, previewing, server,
                 mounted, visible, op, selecting, gone>>
CopyEnds ==
  /\ copying # None /\ copying' = None
  /\ manualCopy' \in IF mounted THEN {None, copying} ELSE {manualCopy}
  /\ UNCHANGED <<remote, confirming, confirmingAll, previewing, server, mounted, visible, op, selecting,
                 gone, left>>
CloseManualCopy ==
  /\ Command /\ manualCopy # None /\ manualCopy' = None
  /\ UNCHANGED <<remote, confirming, confirmingAll, copying, previewing, server, mounted, visible, op,
                 selecting, gone>>

Preview ==
  /\ Command /\ (entries # <<>> \/ manualCopy # None)
  /\ previewing' = TRUE /\ List!CancelBackground
  /\ UNCHANGED <<entries, loading, cycle, etag, confirming, confirmingAll, copying, manualCopy, server,
                 mounted, visible, op, selecting, gone>>
ClosePreview ==
  /\ previewing /\ mounted /\ previewing' = FALSE
  /\ UNCHANGED <<remote, confirming, confirmingAll, copying, manualCopy, server, mounted, visible, op,
                 selecting, gone, left>>
-----------------------------------------------------------------------------
(* Fetching.                                                               *)

\* autoRefresh's reasons to skip a poll.
Skips == Busy \/ copying # None \/ selecting

Settle(f) ==
  /\ ~List!EffectDue(Paused) /\ List!Settle(f) /\ etag' = List!Committed(f, etag)
  /\ UNCHANGED <<cycle, dialogs, server, mounted, visible, op, selecting, gone, left>>
Serve(f) ==
  /\ List!Serve(f, truth)
  /\ UNCHANGED <<entries, loading, cycle, etag, dialogs, server, mounted, visible, op, selecting, gone,
                 left>>
Lose(f) ==
  /\ Spend /\ List!Lose(f)
  /\ UNCHANGED <<entries, loading, cycle, etag, dialogs, server, mounted, visible, op, selecting, gone>>

Effects ==
  /\ List!EffectStarts(Paused) \/ List!EffectStops(Paused)
  /\ UNCHANGED <<etag, dialogs, server, mounted, visible, op, selecting, gone, left>>
Polling ==
  /\ List!Tick(Skips, etag) \/ List!TickEnds
  /\ UNCHANGED <<etag, dialogs, server, mounted, visible, op, selecting, gone, left>>

\* The tab is hidden or shown, text is selected or not, the page is left.
Browser ==
  /\ Spend /\ mounted
  /\ \/ /\ visible' = ~visible /\ List!VisibilityChanges(Skips, etag)
        /\ UNCHANGED <<mounted, selecting>>
     \/ selecting' = ~selecting /\ UNCHANGED <<entries, loading, flights, cycle, mounted, visible>>
     \/ mounted' = FALSE /\ List!Unmounted /\ UNCHANGED <<visible, selecting>>
  /\ UNCHANGED <<etag, dialogs, server, op, gone>>

\* Another device publishes or deletes.
Others ==
  /\ Spend
  /\ \/ \E e \in Id \ used : truth' = Newest(e, truth) /\ used' = used \cup {e}
     \/ \E d \in ToSet(truth) : truth' = Without(d, truth) /\ UNCHANGED used
  /\ UNCHANGED <<remote, dialogs, wire, mounted, visible, op, selecting, gone>>
-----------------------------------------------------------------------------
Buttons ==
  \/ Publish \/ RemoveEntry \/ ClearAll \/ ManualRefresh \/ AskClear \/ Reconsider
  \/ CloseManualCopy \/ Preview \/ ClosePreview \/ \E e \in Id : AskDelete(e) \/ Copy(e)
Running == MutationSucceeds \/ MutationEnds \/ CopyEnds \/ MutationFails
  \/ \E m \in wire : MutationServed(m)
Next == Buttons \/ Running \/ Browser \/ Others \/ Effects \/ Polling
  \/ \E f \in flights : Serve(f) \/ Lose(f) \/ Settle(f)

Spec == Init /\ [][Next]_vars

-----------------------------------------------------------------------------
Flight == [background : BOOLEAN, tag : Seq(Id) \cup {None}, live : BOOLEAN,
           answer : Seq(Id) \cup {None, NotModified, Failed}]
TypeOK ==
  /\ entries \in Seq(Id) /\ truth \in Seq(Id) /\ etag \in Seq(Id) \cup {None}
  /\ flights \subseteq Flight /\ cycle \in {"off", "idle", "timer", "ticking"}
  /\ {loading, mounted, visible, confirmingAll, previewing, selecting} \subseteq BOOLEAN
  /\ {confirming, copying, manualCopy} \subseteq Id \cup {None}
  /\ op \in [pc : {"idle", "asking", "told", "refreshing"}, ask : Mutation \cup {None},
             result : SUBSET Id]
  /\ used \subseteq Id /\ gone \subseteq Id /\ wire \subseteq Mutation /\ left \in Nat

\* A record this page was told is deleted never comes back into view with an older
\* answer (useRemoteData.ts:5, 57).
DeletedStaysGone == Shown \cap gone = {}

\* The tag the page sends is the tag of what it shows, so that "not modified" is true of
\* it, also when the server has returned to an earlier content (ClipboardPage.tsx:35, 81).
TagTrue == etag # None /\ mounted => entries = etag

\* No record is listed twice: the one just published is put in front of a list that no
\* poll brought it into before (ClipboardPage.tsx:54, 74, 105).
NoneTwice == IsInjective(entries)

LoadingTrue == List!LoadingTrue

\* Polling stops only while something the user can see and end is underway, as the page
\* says then: "Automatic updates paused during this operation" (ClipboardPage.tsx:52, 212).
PauseSeen == mounted /\ confirming # None => confirming \in Shown

\* A page left to itself ends up showing the server's history (useAutoRefresh.ts:5).
LeftAlone == mounted /\ visible /\ ~selecting /\ ~Paused
UpToDate == entries = truth
=============================================================================
