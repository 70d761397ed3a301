------------------------------ MODULE RemoteData ------------------------------
(***************************************************************************)
(* State fetched from the server by a page: hooks/useRemoteData.ts and the *)
(* polling of hooks/useAutoRefresh.ts.  Pages instantiate this module once *)
(* for each thing they fetch and compose its operations with their own.    *)
(*                                                                         *)
(* Only the latest request may change the page; an older one was aborted,  *)
(* and its answer, which may have been on its way, is ignored.             *)
(*                                                                         *)
(*   polling   off -> timer -> ticking -> timer ...   while enabled        *)
(*             idle instead of timer while the page is hidden              *)
(***************************************************************************)
CONSTANTS
  None,         \* no answer yet, no entity tag
  NotModified,  \* 304
  Failed        \* an error, or no answer within 30 seconds

VARIABLES
  data, loading,
  flights,    \* list requests; the live one, if any, is request.current
  cycle,      \* where useAutoRefresh stands
  mounted,
  visible     \* document.visibilityState
-----------------------------------------------------------------------------
Live == {f \in flights : f.live}
Polls == {f \in Live : f.background}

Fetch(background, tag) ==
  [background |-> background, tag |-> tag, live |-> TRUE, answer |-> None]

\* axios rejects a request that is aborted before its answer is there.
Abort(fs) == (flights \ fs) \cup
  {[Fetch(FALSE, None) EXCEPT !.live = FALSE, !.answer = f.answer] : f \in {g \in fs : g.answer # None}}

\* cancel, before a mutation.
CancelKeepsLoading == flights' = Abort(Live) /\ UNCHANGED loading
Cancel == flights' = Abort(Live) /\ loading' = FALSE

\* cancelBackground.
CancelBackground == flights' = Abort(Polls)

\* refresh in the foreground supersedes whatever is underway.
Refresh == flights' = Abort(Live) \cup {Fetch(FALSE, None)} /\ loading' = TRUE

\* refresh in the background never interrupts a load or another poll.
Poll(fs, tag) ==
  IF mounted /\ ~\E f \in fs : f.live THEN fs \cup {Fetch(TRUE, tag)} ELSE fs

\* The server answers with what it holds, or that the tag still stands.
Serve(f, current) ==
  /\ f.answer = None
  /\ flights' = (flights \ {f}) \cup
       {[f EXCEPT !.answer = IF f.tag # None /\ f.tag = current THEN NotModified ELSE current]}
Lose(f) ==
  /\ f.answer = None /\ f.live
  /\ flights' = (flights \ {f}) \cup {[f EXCEPT !.answer = Failed]}

\* The continuation of refresh: an aborted request changes nothing.
AcceptsAnyway(f) == mounted
Accepts(f) == mounted /\ f.live
Settle(f) ==
  /\ f.answer # None /\ flights' = flights \ {f}
  /\ data' = IF Accepts(f) /\ f.answer \notin {NotModified, Failed} THEN f.answer ELSE data
  /\ loading' = (loading /\ (f.background \/ ~Accepts(f)))

\* The tag that the answer's commit leaves, an accepted answer's only.
Committed(f, tag) ==
  IF ~Accepts(f) \/ f.answer = Failed THEN tag
  ELSE IF f.answer = NotModified THEN f.tag ELSE f.answer
-----------------------------------------------------------------------------
(* useAutoRefresh.  React runs its effect after the change that enables or *)
(* disables it, soon enough to be ahead of any answer; the timer may fire  *)
(* in between.                                                             *)

Enabled(paused) == mounted /\ ~loading /\ ~paused
Scheduled == IF visible THEN "timer" ELSE "idle"

EffectDue(paused) == (cycle = "off") = Enabled(paused)

EffectStarts(paused) ==
  /\ cycle = "off" /\ Enabled(paused)
  /\ cycle' = Scheduled
  /\ UNCHANGED <<data, loading, flights>>
EffectStops(paused) ==
  /\ cycle # "off" /\ ~Enabled(paused)
  /\ cycle' = "off" /\ CancelBackground
  /\ UNCHANGED <<data, loading>>

\* The page's own reasons not to poll are looked at when the timer fires.
Tick(skips, tag) ==
  /\ cycle = "timer" /\ cycle' = "ticking"
  /\ flights' = IF skips THEN flights ELSE Poll(flights, tag)
  /\ UNCHANGED <<data, loading>>
TickEnds ==
  /\ cycle = "ticking" /\ Polls = {}
  /\ cycle' = Scheduled
  /\ UNCHANGED <<data, loading, flights>>

\* visible' is given: a hidden page polls no more, a shown one does at once.
VisibilityChanges(skips, tag) ==
  /\ IF cycle = "off" THEN UNCHANGED <<cycle, flights>>
     ELSE /\ cycle' = IF visible' THEN "ticking" ELSE "idle"
          /\ flights' = IF visible' /\ ~skips THEN Poll(Abort(Polls), tag) ELSE Abort(Polls)
  /\ UNCHANGED <<data, loading>>

\* The cleanup of the last render's effects.
Unmounted == flights' = Abort(Live) /\ cycle' = "off" /\ UNCHANGED <<data, loading>>
-----------------------------------------------------------------------------
\* The page says that it is loading exactly while a foreground request is underway: a
\* spinner nobody ends would also keep polling off (useRemoteData.ts:30, 51, 73).
LoadingTrue == mounted => (loading <=> \E f \in Live : ~f.background)
=============================================================================
