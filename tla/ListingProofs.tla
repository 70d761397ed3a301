---------------------------- MODULE ListingProofs ----------------------------
(***************************************************************************)
(* Proofs about FileListing, for any number of goroutines, files, contents *)
(* and changes, and any requests and faults.                               *)
(***************************************************************************)
EXTENDS FileListing, TLAPS

\* What a goroutine's handler knows of its request at each place.
Ready == \A t \in Thread :
  /\ pc[t] = "delete" => req[t].file \in File
  /\ pc[t] \in {"publish", "save", "draft", "swap"} => req[t].file \in Name
  /\ pc[t] = "swap" => req[t].temp \in Temp

Typed == TypeOK /\ Ready

\* The types hold before the first request.
LEMMA TypedInit == Init => Typed
  BY ListingBound DEF Init, Typed, TypeOK, Ready, Pc, Req, NoReq, Look, NoLook, Kind, None,
    Versions, Listing, NoListing, File

\* A change of one file leaves the directory well-typed.
LEMMA ChangeTyped ==
  ASSUME Typed, NEW f \in File, NEW c \in Content \cup {Absent}, NEW who \in {"service", "outside"},
         Change(f, c, who)
  PROVE  /\ disk' \in [File -> Content \cup {Absent}]
         /\ version' \in Versions
         /\ by' \in [File -> {"service", "outside"}]
         /\ version'[f] = version[f] + 1 /\ version'[f] \in Nat
  BY DEF Typed, TypeOK, Change, Versions

\* What the goroutines share keeps its type, and t takes a step of its own.
SharedTyped ==
  /\ disk \in [File -> Content \cup {Absent}]
  /\ version \in Versions /\ due \in Versions
  /\ by \in [File -> {"service", "outside"}]
  /\ listing \in Listing /\ left \in 0 .. MaxChanges /\ orphans \subseteq Temp
Moved(t, p, k, r, l) ==
  /\ pc' = [pc EXCEPT ![t] = p] /\ answer' = [answer EXCEPT ![t] = k]
  /\ req' = [req EXCEPT ![t] = r] /\ look' = [look EXCEPT ![t] = l]
ReadyAt(p, r) ==
  /\ p = "delete" => r.file \in File
  /\ p \in {"publish", "save", "draft", "swap"} => r.file \in Name
  /\ p = "swap" => r.temp \in Temp

\* A goroutine that moves to where its request belongs keeps the types.
LEMMA StepTyped ==
  ASSUME Typed, NEW t \in Thread, NEW p \in Pc, NEW k \in Kind, NEW r \in Req, NEW l \in Look,
         Moved(t, p, k, r, l), ReadyAt(p, r), SharedTyped'
  PROVE  Typed'
<1>1. TypeOK'
  BY DEF Typed, TypeOK, Moved, SharedTyped
<1>2. \A u \in Thread \ {t} : pc'[u] = pc[u] /\ req'[u] = req[u]
  BY DEF Typed, TypeOK, Moved
<1>3. pc'[t] = p /\ req'[t] = r
  BY DEF Typed, TypeOK, Moved
<1>4. Ready'
  BY <1>2, <1>3 DEF Typed, Ready, ReadyAt
<1> QED
  BY <1>1, <1>4 DEF Typed

\* No step of a handler, and nothing that happens around them, breaks the types.
LEMMA TypedStep == Typed /\ [Next]_vars => Typed'
<1> SUFFICES ASSUME Typed, [Next]_vars PROVE Typed'
  OBVIOUS
<1> USE DEF Goto, Answer, Files, Ghost
<1>0. /\ SharedTyped
      /\ \A u \in Thread : req[u] \in Req /\ look[u] \in Look /\ pc[u] \in Pc /\ answer[u] \in Kind
  BY DEF Typed, TypeOK, SharedTyped
<1>a. NoReq \in Req /\ NoLook \in Look /\ NoListing \in Listing
  BY DEF NoReq, Req, NoLook, Look, NoListing, Listing, None, Versions
<1>b. /\ pc = [u \in Thread |-> pc[u]] /\ req = [u \in Thread |-> req[u]]
      /\ look = [u \in Thread |-> look[u]] /\ answer = [u \in Thread |-> answer[u]]
  BY DEF Typed, TypeOK
<1>1. CASE UNCHANGED vars
  BY <1>1 DEF vars, Typed, TypeOK, Ready
<1>2. ASSUME NEW t \in Thread, Request(t) PROVE Typed'
  <2>1. Since \in Versions
    BY <1>0 DEF Since, SharedTyped
  <2>2. CASE req' = [req EXCEPT ![t] = [NoReq EXCEPT !.op = "list", !.since = Since]]
             /\ Goto(t, "list") /\ UNCHANGED left
    <3>1. [NoReq EXCEPT !.op = "list", !.since = Since] \in Req
      BY <2>1, <1>a DEF Req
    <3>m. Moved(t, "list", answer[t], [NoReq EXCEPT !.op = "list", !.since = Since], look[t])
      BY <1>2, <2>2, <1>b DEF Request, Moved
    <3>s. SharedTyped'
      BY <1>2, <2>2, <1>0 DEF Request, SharedTyped
    <3> QED
      BY <3>m, <3>s, <1>0, StepTyped, <3>1 DEF ReadyAt, Pc, Kind
  <2>l. left > 0 /\ left' = left - 1 => left' \in 0 .. MaxChanges
    BY <1>0, ListingBound DEF SharedTyped
  <2>3. ASSUME left > 0, left' = left - 1,
               NEW f \in Name, NEW text \in Content, NEW loaded \in Content,
               NEW op \in {"publish", "save"}, Goto(t, op),
               req' = [req EXCEPT ![t] = [NoReq EXCEPT !.op = op, !.file = f, !.text = text,
                                            !.loaded = IF op = "save" THEN loaded ELSE Absent]]
        PROVE  Typed'
    <3>1. PICK r : r = [NoReq EXCEPT !.op = op, !.file = f, !.text = text,
                          !.loaded = IF op = "save" THEN loaded ELSE Absent]
      OBVIOUS
    <3>2. r \in Req /\ r.file = f
      BY <3>1, <1>a DEF Req, File, NoReq
    <3>m. Moved(t, op, answer[t], r, look[t])
      BY <1>2, <2>3, <3>1, <1>b DEF Request, Moved
    <3>s. SharedTyped'
      BY <1>2, <2>l, <2>3, <1>0 DEF Request, SharedTyped
    <3> QED
      BY <3>m, <3>s, <1>0, StepTyped, <3>2 DEF ReadyAt, Pc, Kind
  <2>4. ASSUME left > 0, left' = left - 1, NEW f \in File, Goto(t, "delete"),
               req' = [req EXCEPT ![t] = [NoReq EXCEPT !.op = "delete", !.file = f]]
        PROVE  Typed'
    <3>1. PICK r : r = [NoReq EXCEPT !.op = "delete", !.file = f]
      OBVIOUS
    <3>2. r \in Req /\ r.file = f
      BY <3>1, <1>a DEF Req, NoReq
    <3>m. Moved(t, "delete", answer[t], r, look[t])
      BY <1>2, <2>4, <3>1, <1>b DEF Request, Moved
    <3>s. SharedTyped'
      BY <1>2, <2>l, <2>4, <1>0 DEF Request, SharedTyped
    <3> QED
      BY <3>m, <3>s, <1>0, StepTyped, <3>2 DEF ReadyAt, Pc, Kind
  <2> QED
    <3>1. CASE "list" \in Requests /\ req' = [req EXCEPT ![t] = [NoReq EXCEPT !.op = "list", !.since = Since]]
               /\ Goto(t, "list") /\ UNCHANGED left
      BY <2>2, <3>1
    <3>2. CASE /\ left > 0 /\ left' = left - 1
               /\ \E f \in Name, text, loaded \in Content, op \in Requests \cap {"publish", "save"} :
                    /\ op = "save" => Spare
                    /\ req' = [req EXCEPT ![t] = [NoReq EXCEPT !.op = op, !.file = f, !.text = text,
                                             !.loaded = IF op = "save" THEN loaded ELSE Absent]]
                    /\ Goto(t, op)
      <4>1. PICK f \in Name, text, loaded \in Content, op \in {"publish", "save"} :
                    /\ req' = [req EXCEPT ![t] = [NoReq EXCEPT !.op = op, !.file = f, !.text = text,
                                             !.loaded = IF op = "save" THEN loaded ELSE Absent]]
                    /\ Goto(t, op)
        BY <3>2
      <4> QED
        BY <2>3, <3>2, <4>1, Zenon
    <3>3. CASE /\ left > 0 /\ left' = left - 1
               /\ \E f \in File : req' = [req EXCEPT ![t] = [NoReq EXCEPT !.op = "delete", !.file = f]]
               /\ Goto(t, "delete")
      BY <2>4, <3>3
    <3> QED
      BY <1>2, <3>1, <3>2, <3>3 DEF Request
<1>3. ASSUME NEW t \in Thread, Respond(t) PROVE Typed'
  <2>1. due' \in Versions
    BY <1>3, <1>0 DEF Respond, Versions, Req, SharedTyped
  <2>m. Moved(t, "idle", "none", NoReq, NoLook)
    BY <1>3, <1>b DEF Respond, Moved
  <2>s. SharedTyped'
    BY <1>3, <1>0, <2>1 DEF Respond, SharedTyped
  <2> QED
    BY <2>m, <2>s, <1>0, StepTyped, <1>a DEF ReadyAt, Pc, Kind
<1>4. ASSUME NEW t \in Thread, ServeCached(t) PROVE Typed'
  <2>1. [seen |-> listing.seen, shown |-> listing.shown, todo |-> {}] \in Look
    BY <1>0 DEF SharedTyped, Listing, Look
  <2>m. Moved(t, "done", "listed", req[t],
             [seen |-> listing.seen, shown |-> listing.shown, todo |-> {}])
    BY <1>4, <1>b DEF ServeCached, Moved
  <2>s. SharedTyped'
    BY <1>4, <1>0 DEF ServeCached, SharedTyped
  <2> QED
    BY <2>m, <2>s, <1>0, StepTyped, <2>1 DEF ReadyAt, Pc, Kind
<1>5. ASSUME NEW t \in Thread, ScanNames(t) PROVE Typed'
  <2>1. PICK found \in SUBSET File : look' = [look EXCEPT ![t] =
               [todo |-> found, shown |-> {},
                seen |-> [f \in File |-> IF f \in found THEN 0 ELSE version[f]]]]
    BY <1>5 DEF ScanNames
  <2>2. PICK seen : seen = [f \in File |-> IF f \in found THEN 0 ELSE version[f]]
    OBVIOUS
  <2>3. [todo |-> found, shown |-> {}, seen |-> seen] \in Look
    BY <2>2, <1>0 DEF SharedTyped, Look, Versions
  <2>m. Moved(t, "scan", answer[t], req[t], [todo |-> found, shown |-> {}, seen |-> seen])
    BY <1>5, <2>1, <2>2, <1>b DEF ScanNames, Moved
  <2>s. SharedTyped'
    BY <1>5, <2>1, <2>2, <1>0 DEF ScanNames, SharedTyped
  <2> QED
    BY <2>m, <2>s, <1>0, StepTyped, <2>3 DEF ReadyAt, Pc, Kind
<1>6. ASSUME NEW t \in Thread, ScanFile(t) PROVE Typed'
  <2>1. PICK f \in look[t].todo : look' = [look EXCEPT ![t].todo = @ \ {f}, ![t].seen[f] = version[f],
                  ![t].shown = IF disk[f] = Absent THEN @ ELSE @ \cup {f}]
    BY <1>6 DEF ScanFile
  <2>2. look' = [look EXCEPT ![t] = look'[t]] /\ look'[t] =
          [seen |-> [look[t].seen EXCEPT ![f] = version[f]], todo |-> look[t].todo \ {f},
           shown |-> IF disk[f] = Absent THEN look[t].shown ELSE look[t].shown \cup {f}]
    BY <2>1 DEF Typed, TypeOK, Look
  <2>3. look'[t] \in Look
    BY <2>2, <1>0 DEF SharedTyped, Look, Versions
  <2>m. Moved(t, "scan", answer[t], req[t], look'[t])
    BY <1>6, <2>2, <1>b DEF ScanFile, Moved
  <2>s. SharedTyped'
    BY <1>6, <2>2, <1>0 DEF ScanFile, SharedTyped
  <2> QED
    BY <2>m, <2>s, <1>0, StepTyped, <2>3 DEF ReadyAt, Pc, Kind
<1>7. ASSUME NEW t \in Thread, ScanEnd(t) PROVE Typed'
  <2>1. listing' \in Listing
    BY <1>7, <1>0 DEF ScanEnd, Listing, Look
  <2>m. Moved(t, "done", "listed", req[t], look[t])
    BY <1>7, <1>b DEF ScanEnd, Moved
  <2>s. SharedTyped'
    BY <1>7, <1>0, <2>1 DEF ScanEnd, SharedTyped
  <2> QED
    BY <2>m, <2>s, <1>0, StepTyped DEF ReadyAt, Pc, Kind
<1>8. ASSUME NEW t \in Thread, ScanFails(t) PROVE Typed'
  <2>m. Moved(t, "done", "failed", req[t], look[t])
    BY <1>8, <1>b DEF ScanFails, Moved
  <2>s. SharedTyped'
    BY <1>8, <1>0 DEF ScanFails, SharedTyped
  <2> QED
    BY <2>m, <2>s, <1>0, StepTyped DEF ReadyAt, Pc, Kind
<1>9. ASSUME NEW t \in Thread, Delete(t) PROVE Typed'
  <2>1. req[t].file \in File
    BY <1>9 DEF Delete, Typed, Ready
  <2>2. ASSUME NEW k \in Kind, Answer(t, k), UNCHANGED <<req, Files>> PROVE Typed'
    <3>m. Moved(t, "done", k, req[t], look[t])
      BY <1>9, <2>2, <1>b DEF Delete, Moved
    <3>s. SharedTyped'
      BY <1>9, <2>2, <1>0 DEF Delete, SharedTyped
    <3> QED
      BY <3>m, <3>s, <1>0, StepTyped DEF ReadyAt, Pc, Kind
  <2>3. CASE Change(req[t].file, Absent, "service") /\ Goto(t, "forget") /\ UNCHANGED answer
             /\ req' = [req EXCEPT ![t].made = version'[req[t].file]]
    <3>1. [req[t] EXCEPT !.made = version'[req[t].file]] \in Req
      BY <1>0, <2>1, <2>3, ChangeTyped DEF Req
    <3>m. Moved(t, "forget", answer[t], [req[t] EXCEPT !.made = version'[req[t].file]], look[t])
      BY <1>9, <2>3, <1>b DEF Delete, Moved
    <3>s. SharedTyped'
      BY <1>9, <2>3, <1>0, <2>1, ChangeTyped DEF Delete, SharedTyped
    <3> QED
      BY <3>m, <3>s, <1>0, StepTyped, <3>1 DEF ReadyAt, Pc, Kind
  <2> QED
    BY <1>9, <2>2, <2>3 DEF Delete, Kind
<1>10. ASSUME NEW t \in Thread, Publish(t) PROVE Typed'
  <2>1. CASE UNCHANGED <<req, Files>> /\ Answer(t, "failed")
    <3>m. Moved(t, "done", "failed", req[t], look[t])
      BY <1>10, <2>1, <1>b DEF Publish, Moved
    <3>s. SharedTyped'
      BY <1>10, <2>1, <1>0 DEF Publish, SharedTyped
    <3> QED
      BY <3>m, <3>s, <1>0, StepTyped DEF ReadyAt, Pc, Kind
  <2>2. CASE req' = [req EXCEPT ![t].file = NoFile] /\ Goto(t, "forget") /\ UNCHANGED <<answer, Files>>
    <3>1. [req[t] EXCEPT !.file = NoFile] \in Req
      BY <1>0 DEF Req
    <3>m. Moved(t, "forget", answer[t], [req[t] EXCEPT !.file = NoFile], look[t])
      BY <1>10, <2>2, <1>b DEF Publish, Moved
    <3>s. SharedTyped'
      BY <1>10, <2>2, <1>0 DEF Publish, SharedTyped
    <3> QED
      BY <3>m, <3>s, <1>0, StepTyped, <3>1 DEF ReadyAt, Pc, Kind
  <2>3. ASSUME NEW f \in Name, Change(f, req[t].text, "service"), Goto(t, "forget"), UNCHANGED answer,
               req' = [req EXCEPT ![t].file = f, ![t].made = version'[f]]
        PROVE  Typed'
    <3>1. f \in File /\ req[t].text \in Content \cup {Absent}
      BY <1>0 DEF File, Req
    <3>2. PICK r : r = [req[t] EXCEPT !.file = f, !.made = version'[f]]
      OBVIOUS
    <3>3. r \in Req
      BY <1>0, <2>3, <3>1, <3>2, ChangeTyped DEF Req
    <3>4. req' = [req EXCEPT ![t] = r]
      BY <2>3, <3>2, <1>b
    <3>m. Moved(t, "forget", answer[t], r, look[t])
      BY <1>10, <2>3, <3>4, <1>b DEF Publish, Moved
    <3>s. SharedTyped'
      BY <1>10, <2>3, <3>4, <1>0, <3>1, ChangeTyped DEF Publish, SharedTyped
    <3> QED
      BY <3>m, <3>s, <1>0, StepTyped, <3>3 DEF ReadyAt, Pc, Kind
  <2>4. ASSUME NEW f \in IF req[t].file \in {g \in Name : disk[g] = Absent}
                         THEN {req[t].file} ELSE {g \in Name : disk[g] = Absent}
        PROVE  f \in Name
    OBVIOUS
  <2> QED
    BY <1>10, <2>1, <2>2, <2>3, <2>4 DEF Publish
<1>11. ASSUME NEW t \in Thread, Forget(t) PROVE Typed'
  <2>1. PICK k \in Kind : Answer(t, k)
    BY <1>11 DEF Forget, Kind
  <2>m. Moved(t, "done", k, req[t], look[t])
    BY <1>11, <2>1, <1>b DEF Forget, Moved
  <2>s. SharedTyped'
    BY <1>11, <2>1, <1>0, <1>a DEF Forget, SharedTyped, Invalidated
  <2> QED
    BY <2>m, <2>s, <1>0, StepTyped DEF ReadyAt, Pc, Kind
<1>12. ASSUME NEW t \in Thread, Compare(t) PROVE Typed'
  <2>1. req[t].file \in Name
    BY <1>12 DEF Compare, Typed, Ready
  <2>2. CASE Goto(t, "draft") /\ UNCHANGED answer
    <3>m. Moved(t, "draft", answer[t], req[t], look[t])
      BY <1>12, <2>2, <1>b DEF Compare, Moved
    <3>s. SharedTyped'
      BY <1>12, <2>2, <1>0 DEF Compare, SharedTyped
    <3> QED
      BY <3>m, <3>s, <1>0, StepTyped, <2>1 DEF ReadyAt, Pc, Kind
  <2>3. ASSUME NEW k \in Kind, Answer(t, k) PROVE Typed'
    <3>m. Moved(t, "done", k, req[t], look[t])
      BY <1>12, <2>3, <1>b DEF Compare, Moved
    <3>s. SharedTyped'
      BY <1>12, <2>3, <1>0 DEF Compare, SharedTyped
    <3> QED
      BY <3>m, <3>s, <1>0, StepTyped DEF ReadyAt, Pc, Kind
  <2> QED
    BY <1>12, <2>2, <2>3 DEF Compare, Kind
<1>13. ASSUME NEW t \in Thread, Draft(t) PROVE Typed'
  <2>1. CASE Answer(t, "failed") /\ UNCHANGED <<req, Files>>
    <3>m. Moved(t, "done", "failed", req[t], look[t])
      BY <1>13, <2>1, <1>b DEF Draft, Moved
    <3>s. SharedTyped'
      BY <1>13, <2>1, <1>0 DEF Draft, SharedTyped
    <3> QED
      BY <3>m, <3>s, <1>0, StepTyped DEF ReadyAt, Pc, Kind
  <2>2. ASSUME NEW x \in DraftNames(t), Change(x, req[t].text, "service"),
               req' = [req EXCEPT ![t].temp = x], Goto(t, "swap"), UNCHANGED answer
        PROVE  Typed'
    <3>1. x \in Temp /\ x \in File /\ req[t].text \in Content \cup {Absent}
      BY <1>0 DEF DraftNames, File, Req
    <3>2. PICK r : r = [req[t] EXCEPT !.temp = x]
      OBVIOUS
    <3>3. r \in Req /\ r.temp = x /\ r.file = req[t].file /\ r.file \in Name
      BY <1>13, <1>0, <3>1, <3>2 DEF Draft, Req, Typed, Ready
    <3>m. Moved(t, "swap", answer[t], r, look[t])
      BY <1>13, <2>2, <3>2, <1>b DEF Draft, Moved
    <3>s. SharedTyped'
      BY <1>13, <2>2, <3>2, <1>0, <3>1, ChangeTyped DEF Draft, SharedTyped
    <3> QED
      BY <3>m, <3>s, <1>0, StepTyped, <3>1, <3>3 DEF ReadyAt, Pc, Kind
  <2> QED
    BY <1>13, <2>1, <2>2 DEF Draft
<1>14. ASSUME NEW t \in Thread, Swap(t) PROVE Typed'
  <2>1. req[t].file \in File /\ req[t].temp \in File /\ req[t].text \in Content \cup {Absent}
    BY <1>14, <1>0 DEF Swap, Typed, Ready, File, Req
  <2>2. disk' \in [File -> Content \cup {Absent}] /\ by' \in [File -> {"service", "outside"}]
    BY <1>14, <1>0, <2>1 DEF Swap, SharedTyped
  <2>3. version' \in Versions
    BY <1>14, <1>0, <2>1 DEF Swap, SharedTyped, Versions
  <2>4. [req[t] EXCEPT !.made = version[req[t].file] + 1] \in Req
    BY <1>0, <2>1 DEF SharedTyped, Req, Versions
  <2>m. Moved(t, "done", "saved", [req[t] EXCEPT !.made = version[req[t].file] + 1], look[t])
    BY <1>14, <1>b DEF Swap, Moved
  <2>s. SharedTyped'
    BY <1>14, <1>0, <1>a, <2>2, <2>3 DEF Swap, SharedTyped
  <2> QED
    BY <2>m, <2>s, <1>0, StepTyped, <2>4 DEF ReadyAt, Pc, Kind
<1>15. ASSUME NEW t \in Thread, SwapFails(t) PROVE Typed'
  <2>1. req[t].temp \in Temp /\ req[t].temp \in File
    BY <1>15 DEF SwapFails, Typed, Ready, File
  <2>2. disk' \in [File -> Content \cup {Absent}] /\ version' \in Versions
        /\ by' \in [File -> {"service", "outside"}] /\ orphans' \subseteq Temp
    BY <1>15, <1>0, <2>1, ChangeTyped DEF SwapFails, SharedTyped
  <2>m. Moved(t, "done", "failed", req[t], look[t])
    BY <1>15, <1>b DEF SwapFails, Moved
  <2>s. SharedTyped'
    BY <1>15, <1>0, <2>2 DEF SwapFails, SharedTyped
  <2> QED
    BY <2>m, <2>s, <1>0, StepTyped DEF ReadyAt, Pc, Kind
<1>16. CASE Lapse
  <2>1. listing' \in Listing
    BY <1>16, <1>0 DEF Lapse, SharedTyped, Listing
  <2> QED
    BY <1>16, <1>0, <2>1 DEF Lapse, SharedTyped, Typed, TypeOK, Ready
<1>17. CASE Outside
  <2>1. PICK f \in Name, c \in Content \cup {Absent} : Change(f, c, "outside")
    BY <1>17 DEF Outside
  <2>2. f \in File
    BY DEF File
  <2>3. left' \in 0 .. MaxChanges
    BY <1>17, <1>0, ListingBound DEF Outside, SharedTyped
  <2>4. TypeOK'
    BY <1>17, <2>1, <2>2, <2>3, ChangeTyped DEF Outside, Typed, TypeOK
  <2>5. Ready'
    BY <1>17 DEF Outside, Typed, Ready
  <2> QED
    BY <2>4, <2>5 DEF Typed
<1>18. CASE Crash
  <2>1. {req[t].temp : t \in {u \in Thread : pc[u] = "swap"}} \subseteq Temp
    BY DEF Typed, Ready
  <2>2. TypeOK'
    BY <1>18, <1>0, <1>a, <2>1 DEF Crash, SharedTyped, TypeOK, Pc, Kind
  <2>3. Ready'
    BY <1>18 DEF Crash, Ready
  <2> QED
    BY <2>2, <2>3 DEF Typed
<1> QED
  BY <1>1, <1>2, <1>3, <1>4, <1>5, <1>6, <1>7, <1>8, <1>9, <1>10,
    <1>11, <1>12, <1>13, <1>14, <1>15, <1>16, <1>17, <1>18 DEF Next

\* Every variable of the listing and the editor keeps its type.
THEOREM ListingTyped == Spec => []TypeOK
<1>1. Typed => TypeOK
  BY DEF Typed
<1> QED
  BY <1>1, TypedInit, TypedStep, PTL DEF Spec
-----------------------------------------------------------------------------
(* What a listing owes to those who ask for it *)

\* One goroutine at a time scans, or replaces a file with listingMu held.
Alone == \A t, u \in Thread : pc[t] \in {"scan", "swap"} /\ pc[u] \in {"scan", "swap"} => t = u

\* Version v of f has been made, and neither the cache that is served nor a scan
\* that has passed f misses it.
Shows(f, v) ==
  /\ v <= version[f]
  /\ Cached => v <= listing.seen[f]
  /\ \A t \in Thread : pc[t] = "scan" /\ f \notin look[t].todo => v <= look[t].seen[f]

Told(t) == pc[t] = "done" /\ answer[t] \in {"deleted", "published", "saved"}

\* All that was promised is shown: to whoever asks from now on, to those whose
\* answer is on its way, and to those who wait for a listing.
Promised ==
  /\ \A f \in File : Shows(f, due[f])
  /\ \A t \in Thread : Told(t) /\ req[t].file \in File => Shows(req[t].file, req[t].made)
  /\ \A t \in Thread : pc[t] \in {"list", "scan"} => \A f \in File : Shows(f, req[t].since[f])
  /\ \A t \in Thread : pc[t] = "forget" /\ req[t].file \in File
                         => req[t].made <= version[req[t].file]

Current == Typed /\ Alone /\ Promised /\ ListCurrent

\* Versions only grow.
LEMMA VersionsGrow == Typed /\ [Next]_vars => \A f \in File : version[f] <= version'[f]
<1> SUFFICES ASSUME Typed, [Next]_vars, NEW f \in File PROVE version[f] <= version'[f]
  OBVIOUS
<1> USE DEF Files, Ghost
<1>v. version \in [File -> Nat] /\ version[f] \in Nat
  BY DEF Typed, TypeOK, Versions
<1>c. ASSUME NEW g, NEW c, NEW who, Change(g, c, who) PROVE version[f] <= version'[f]
  BY <1>v, <1>c DEF Change
<1>0. CASE UNCHANGED version
  BY <1>0, <1>v
<1>1. ASSUME NEW t \in Thread, Request(t) PROVE version[f] <= version'[f]
  BY <1>1, <1>0 DEF Request
<1>2. ASSUME NEW t \in Thread, Respond(t) PROVE version[f] <= version'[f]
  BY <1>2, <1>0 DEF Respond
<1>3. ASSUME NEW t \in Thread, ServeCached(t) PROVE version[f] <= version'[f]
  BY <1>3, <1>0 DEF ServeCached
<1>4. ASSUME NEW t \in Thread, ScanNames(t) PROVE version[f] <= version'[f]
  BY <1>4, <1>0 DEF ScanNames
<1>5. ASSUME NEW t \in Thread, ScanFile(t) PROVE version[f] <= version'[f]
  BY <1>5, <1>0 DEF ScanFile
<1>6. ASSUME NEW t \in Thread, ScanEnd(t) PROVE version[f] <= version'[f]
  BY <1>6, <1>0 DEF ScanEnd
<1>7. ASSUME NEW t \in Thread, ScanFails(t) PROVE version[f] <= version'[f]
  BY <1>7, <1>0 DEF ScanFails
<1>8. ASSUME NEW t \in Thread, Delete(t) PROVE version[f] <= version'[f]
  BY <1>8, <1>0, <1>c DEF Delete
<1>9. ASSUME NEW t \in Thread, Publish(t) PROVE version[f] <= version'[f]
  BY <1>9, <1>0, <1>c DEF Publish
<1>10. ASSUME NEW t \in Thread, Forget(t) PROVE version[f] <= version'[f]
  BY <1>10, <1>0 DEF Forget
<1>11. ASSUME NEW t \in Thread, Compare(t) PROVE version[f] <= version'[f]
  BY <1>11, <1>0 DEF Compare
<1>12. ASSUME NEW t \in Thread, Draft(t) PROVE version[f] <= version'[f]
  BY <1>12, <1>0, <1>c DEF Draft
<1>13. ASSUME NEW t \in Thread, Swap(t) PROVE version[f] <= version'[f]
  BY <1>13, <1>v DEF Swap
<1>14. ASSUME NEW t \in Thread, SwapFails(t) PROVE version[f] <= version'[f]
  BY <1>14, <1>0, <1>c DEF SwapFails
<1>15. CASE Lapse
  BY <1>15, <1>0 DEF Lapse
<1>16. CASE Outside
  BY <1>16, <1>0, <1>c DEF Outside
<1>17. CASE Crash
  BY <1>17, <1>0 DEF Crash
<1> QED
  BY <1>0, <1>1, <1>2, <1>3, <1>4, <1>5, <1>6, <1>7, <1>8, <1>9,
    <1>10, <1>11, <1>12, <1>13, <1>14, <1>15, <1>16, <1>17 DEF Next, vars

\* listingMu is never held twice.
LEMMA AloneStep == Typed /\ Alone /\ [Next]_vars => Alone'
<1> SUFFICES ASSUME Typed, Alone, [Next]_vars PROVE Alone'
  OBVIOUS
<1> USE DEF Goto, Answer
<1>p. pc \in [Thread -> Pc]
  BY DEF Typed, TypeOK
<1>q. ASSUME NEW t \in Thread, NEW p, pc' = [pc EXCEPT ![t] = p],
             p \notin {"scan", "swap"} \/ ListingMuFree \/ pc[t] \in {"scan", "swap"}
      PROVE  Alone'
  BY <1>p, <1>q DEF Alone, ListingMuFree
<1>0. CASE UNCHANGED vars
  BY <1>0 DEF vars, Alone
<1>1. ASSUME NEW t \in Thread, Request(t) PROVE Alone'
  BY <1>1, <1>q DEF Request
<1>2. ASSUME NEW t \in Thread, Respond(t) PROVE Alone'
  BY <1>2, <1>q DEF Respond
<1>3. ASSUME NEW t \in Thread, ServeCached(t) PROVE Alone'
  BY <1>3, <1>q DEF ServeCached
<1>4. ASSUME NEW t \in Thread, ScanNames(t) PROVE Alone'
  BY <1>4, <1>q DEF ScanNames
<1>5. ASSUME NEW t \in Thread, ScanFile(t) PROVE Alone'
  BY <1>5 DEF ScanFile, Alone
<1>6. ASSUME NEW t \in Thread, ScanEnd(t) PROVE Alone'
  BY <1>6, <1>q DEF ScanEnd
<1>7. ASSUME NEW t \in Thread, ScanFails(t) PROVE Alone'
  BY <1>7, <1>q DEF ScanFails
<1>8. ASSUME NEW t \in Thread, Delete(t) PROVE Alone'
  BY <1>8, <1>q DEF Delete
<1>9. ASSUME NEW t \in Thread, Publish(t) PROVE Alone'
  BY <1>9, <1>q DEF Publish
<1>10. ASSUME NEW t \in Thread, Forget(t) PROVE Alone'
  BY <1>10, <1>q DEF Forget
<1>11. ASSUME NEW t \in Thread, Compare(t) PROVE Alone'
  BY <1>11, <1>q DEF Compare
<1>12. ASSUME NEW t \in Thread, Draft(t) PROVE Alone'
  BY <1>12, <1>q DEF Draft
<1>13. ASSUME NEW t \in Thread, Swap(t) PROVE Alone'
  BY <1>13, <1>q DEF Swap
<1>14. ASSUME NEW t \in Thread, SwapFails(t) PROVE Alone'
  BY <1>14, <1>q DEF SwapFails
<1>15. CASE Lapse
  BY <1>15 DEF Lapse, Alone
<1>16. CASE Outside
  BY <1>16 DEF Outside, Alone
<1>17. CASE Crash
  BY <1>17 DEF Crash, Alone
<1> QED
  BY <1>0, <1>1, <1>2, <1>3, <1>4, <1>5, <1>6, <1>7, <1>8, <1>9,
    <1>10, <1>11, <1>12, <1>13, <1>14, <1>15, <1>16, <1>17 DEF Next

\* What is shown once is never missed again.
LEMMA ShownStep ==
  ASSUME Typed, Typed', Alone, [Next]_vars, NEW f \in File, NEW v \in Nat, Shows(f, v)
  PROVE  Shows(f, v)'
<1> USE DEF Goto, Answer, Files, Ghost
<1>g. v <= version'[f]
  BY VersionsGrow DEF Shows, Typed, TypeOK, Versions
<1>p. pc \in [Thread -> Pc] /\ look \in [Thread -> Look]
  BY DEF Typed, TypeOK
<1>s. ASSUME UNCHANGED look, \A u \in Thread : pc'[u] = "scan" => pc[u] = "scan",
             UNCHANGED listing \/ ~Cached'
      PROVE  Shows(f, v)'
  BY <1>g, <1>s DEF Shows, Cached
<1>l. ASSUME NEW t \in Thread, NEW p, pc' = [pc EXCEPT ![t] = p], p # "scan",
             \A u \in Thread \ {t} : look'[u] = look[u],
             UNCHANGED listing \/ ~Cached'
      PROVE  Shows(f, v)'
  BY <1>g, <1>p, <1>l DEF Shows, Cached
<1>n. ~NoListing.set /\ NoListing.fresh = FALSE
  BY DEF NoListing
<1>0. CASE UNCHANGED vars
  BY <1>0, <1>s DEF vars
<1>1. ASSUME NEW t \in Thread, Request(t) PROVE Shows(f, v)'
  BY <1>1, <1>l DEF Request
<1>2. ASSUME NEW t \in Thread, Respond(t) PROVE Shows(f, v)'
  BY <1>2, <1>l, <1>p DEF Respond
<1>3. ASSUME NEW t \in Thread, ServeCached(t) PROVE Shows(f, v)'
  BY <1>3, <1>l, <1>p DEF ServeCached
<1>4. ASSUME NEW t \in Thread, ScanNames(t) PROVE Shows(f, v)'
  <2>1. PICK found \in SUBSET File : look' = [look EXCEPT ![t] =
               [todo |-> found, shown |-> {},
                seen |-> [g \in File |-> IF g \in found THEN 0 ELSE version[g]]]]
    BY <1>4 DEF ScanNames
  <2>2. f \notin look'[t].todo => look'[t].seen[f] = version[f]
    BY <2>1, <1>p
  <2>3. \A u \in Thread \ {t} : look'[u] = look[u] /\ pc'[u] = pc[u]
    BY <1>4, <2>1, <1>p DEF ScanNames
  <2> QED
    BY <1>4, <1>g, <2>2, <2>3 DEF ScanNames, Shows, Cached
<1>5. ASSUME NEW t \in Thread, ScanFile(t) PROVE Shows(f, v)'
  <2>1. PICK g \in look[t].todo : look' = [look EXCEPT ![t].todo = @ \ {g}, ![t].seen[g] = version[g],
                  ![t].shown = IF disk[g] = Absent THEN @ ELSE @ \cup {g}]
    BY <1>5 DEF ScanFile
  <2>2. /\ look'[t].todo = look[t].todo \ {g}
        /\ look'[t].seen = [look[t].seen EXCEPT ![g] = version[g]]
        /\ look[t].seen \in [File -> Nat]
    BY <2>1, <1>p DEF Look, Versions
  <2>3. \A u \in Thread \ {t} : look'[u] = look[u]
    BY <2>1, <1>p
  <2> QED
    BY <1>5, <1>g, <2>2, <2>3 DEF ScanFile, Shows, Cached
<1>6. ASSUME NEW t \in Thread, ScanEnd(t) PROVE Shows(f, v)'
  <2>1. v <= look[t].seen[f]
    BY <1>6 DEF ScanEnd, Shows
  <2> QED
    BY <1>6, <1>g, <1>p, <2>1 DEF ScanEnd, Shows, Cached
<1>7. ASSUME NEW t \in Thread, ScanFails(t) PROVE Shows(f, v)'
  BY <1>7, <1>l DEF ScanFails
<1>8. ASSUME NEW t \in Thread, Delete(t) PROVE Shows(f, v)'
  BY <1>8, <1>l DEF Delete
<1>9. ASSUME NEW t \in Thread, Publish(t) PROVE Shows(f, v)'
  BY <1>9, <1>l DEF Publish
<1>10. ASSUME NEW t \in Thread, Forget(t) PROVE Shows(f, v)'
  BY <1>10, <1>l, <1>n DEF Forget, Invalidated, Cached
<1>11. ASSUME NEW t \in Thread, Compare(t) PROVE Shows(f, v)'
  BY <1>11, <1>l DEF Compare
<1>12. ASSUME NEW t \in Thread, Draft(t) PROVE Shows(f, v)'
  BY <1>12, <1>l DEF Draft
<1>13. ASSUME NEW t \in Thread, Swap(t) PROVE Shows(f, v)'
  BY <1>13, <1>l, <1>n DEF Swap, Invalidated, Cached
<1>14. ASSUME NEW t \in Thread, SwapFails(t) PROVE Shows(f, v)'
  BY <1>14, <1>l DEF SwapFails
<1>15. CASE Lapse
  BY <1>15, <1>s, <1>p DEF Lapse, Cached, Typed, TypeOK, Listing
<1>16. CASE Outside
  BY <1>16, <1>s DEF Outside
<1>17. CASE Crash
  BY <1>17, <1>g, <1>n DEF Crash, Shows, Cached
<1> QED
  BY <1>0, <1>1, <1>2, <1>3, <1>4, <1>5, <1>6, <1>7, <1>8, <1>9,
    <1>10, <1>11, <1>12, <1>13, <1>14, <1>15, <1>16, <1>17 DEF Next

\* By which steps t comes to hold a promise, to wait for a listing, or to have one.
Entered(t) ==
  /\ Told(t)' => (Told(t) /\ req'[t] = req[t]) \/ Forget(t) \/ Swap(t)
  /\ pc'[t] \in {"list", "scan"} =>
       (pc[t] \in {"list", "scan"} /\ req'[t] = req[t]) \/ Request(t)
  /\ pc'[t] = "forget" => (pc[t] = "forget" /\ req'[t] = req[t]) \/ Delete(t) \/ Publish(t)
  /\ Listed(t)' =>
       (Listed(t) /\ req'[t] = req[t] /\ look'[t] = look[t]) \/ ServeCached(t) \/ ScanEnd(t)

\* There is no other way to be told, to wait, to forget or to be given a listing.
LEMMA Entering == ASSUME Typed, [Next]_vars, NEW t \in Thread PROVE Entered(t)
<1> USE DEF Goto, Answer, Told, Listed
<1>p. /\ pc \in [Thread -> Pc] /\ answer \in [Thread -> Kind]
      /\ req \in [Thread -> Req] /\ look \in [Thread -> Look]
  BY DEF Typed, TypeOK
\* A step of another goroutine leaves t as it is.
<1>o. ASSUME pc'[t] = pc[t], answer'[t] = answer[t], req'[t] = req[t], look'[t] = look[t]
      PROVE  Entered(t)
  BY <1>o DEF Entered
<1>0. CASE UNCHANGED vars
  BY <1>0, <1>o DEF vars
<1>1. ASSUME NEW u \in Thread, Request(u) PROVE Entered(t)
  <2>1. CASE u # t
    BY <1>1, <2>1, <1>o, <1>p DEF Request
  <2>2. CASE u = t
    BY <1>1, <2>2, <1>p DEF Request, Entered
  <2> QED
    BY <2>1, <2>2
<1>2. ASSUME NEW u \in Thread, Respond(u) PROVE Entered(t)
  <2>1. CASE u # t
    BY <1>2, <2>1, <1>o, <1>p DEF Respond
  <2>2. CASE u = t
    BY <1>2, <2>2, <1>p DEF Respond, Entered
  <2> QED
    BY <2>1, <2>2
<1>3. ASSUME NEW u \in Thread, ServeCached(u) PROVE Entered(t)
  <2>1. CASE u # t
    BY <1>3, <2>1, <1>o, <1>p DEF ServeCached
  <2>2. CASE u = t
    BY <1>3, <2>2, <1>p DEF ServeCached, Entered
  <2> QED
    BY <2>1, <2>2
<1>4. ASSUME NEW u \in Thread, ScanNames(u) PROVE Entered(t)
  <2>1. CASE u # t
    BY <1>4, <2>1, <1>o, <1>p DEF ScanNames
  <2>2. CASE u = t
    BY <1>4, <2>2, <1>p DEF ScanNames, Entered
  <2> QED
    BY <2>1, <2>2
<1>5. ASSUME NEW u \in Thread, ScanFile(u) PROVE Entered(t)
  <2>1. CASE u # t
    BY <1>5, <2>1, <1>o, <1>p DEF ScanFile
  <2>2. CASE u = t
    BY <1>5, <2>2, <1>p DEF ScanFile, Entered
  <2> QED
    BY <2>1, <2>2
<1>6. ASSUME NEW u \in Thread, ScanEnd(u) PROVE Entered(t)
  <2>1. CASE u # t
    BY <1>6, <2>1, <1>o, <1>p DEF ScanEnd
  <2>2. CASE u = t
    BY <1>6, <2>2, <1>p DEF ScanEnd, Entered
  <2> QED
    BY <2>1, <2>2
<1>7. ASSUME NEW u \in Thread, ScanFails(u) PROVE Entered(t)
  <2>1. CASE u # t
    BY <1>7, <2>1, <1>o, <1>p DEF ScanFails
  <2>2. CASE u = t
    BY <1>7, <2>2, <1>p DEF ScanFails, Entered
  <2> QED
    BY <2>1, <2>2
<1>8. ASSUME NEW u \in Thread, Delete(u) PROVE Entered(t)
  <2>1. CASE u # t
    BY <1>8, <2>1, <1>o, <1>p DEF Delete
  <2>2. CASE u = t
    BY <1>8, <2>2, <1>p DEF Delete, Entered
  <2> QED
    BY <2>1, <2>2
<1>9. ASSUME NEW u \in Thread, Publish(u) PROVE Entered(t)
  <2>1. CASE u # t
    BY <1>9, <2>1, <1>o, <1>p DEF Publish
  <2>2. CASE u = t
    BY <1>9, <2>2, <1>p DEF Publish, Entered
  <2> QED
    BY <2>1, <2>2
<1>10. ASSUME NEW u \in Thread, Forget(u) PROVE Entered(t)
  <2>1. CASE u # t
    BY <1>10, <2>1, <1>o, <1>p DEF Forget
  <2>2. CASE u = t
    BY <1>10, <2>2, <1>p DEF Forget, Entered
  <2> QED
    BY <2>1, <2>2
<1>11. ASSUME NEW u \in Thread, Compare(u) PROVE Entered(t)
  <2>1. CASE u # t
    BY <1>11, <2>1, <1>o, <1>p DEF Compare
  <2>2. CASE u = t
    BY <1>11, <2>2, <1>p DEF Compare, Entered
  <2> QED
    BY <2>1, <2>2
<1>12. ASSUME NEW u \in Thread, Draft(u) PROVE Entered(t)
  <2>1. CASE u # t
    BY <1>12, <2>1, <1>o, <1>p DEF Draft
  <2>2. CASE u = t
    BY <1>12, <2>2, <1>p DEF Draft, Entered
  <2> QED
    BY <2>1, <2>2
<1>13. ASSUME NEW u \in Thread, Swap(u) PROVE Entered(t)
  <2>1. CASE u # t
    BY <1>13, <2>1, <1>o, <1>p DEF Swap
  <2>2. CASE u = t
    BY <1>13, <2>2, <1>p DEF Swap, Entered
  <2> QED
    BY <2>1, <2>2
<1>14. ASSUME NEW u \in Thread, SwapFails(u) PROVE Entered(t)
  <2>1. CASE u # t
    BY <1>14, <2>1, <1>o, <1>p DEF SwapFails
  <2>2. CASE u = t
    BY <1>14, <2>2, <1>p DEF SwapFails, Entered
  <2> QED
    BY <2>1, <2>2
<1>15. CASE Lapse
  BY <1>15, <1>o DEF Lapse
<1>16. CASE Outside
  BY <1>16, <1>o DEF Outside
<1>17. CASE Crash
  BY <1>17 DEF Crash, Entered
<1> QED
  BY <1>0, <1>1, <1>2, <1>3, <1>4, <1>5, <1>6, <1>7, <1>8, <1>9,
    <1>10, <1>11, <1>12, <1>13, <1>14, <1>15, <1>16, <1>17 DEF Next

\* A promise once made is shown after every step, and a new one at once.
LEMMA PromisedStep ==
  ASSUME Typed, Typed', Alone, Promised, [Next]_vars
  PROVE  Promised'
<1> USE DEF Goto, Answer
<1>v. version' \in [File -> Nat] /\ version \in [File -> Nat] /\ due' \in [File -> Nat]
      /\ due \in [File -> Nat]
  BY DEF Typed, TypeOK, Versions
<1>p. /\ pc \in [Thread -> Pc] /\ req \in [Thread -> Req] /\ req' \in [Thread -> Req]
  BY DEF Typed, TypeOK
\* Nothing is cached or being scanned: only the version matters.
<1>e. ASSUME NEW f \in File, NEW v \in Nat, v <= version'[f], ~Cached',
             \A u \in Thread : pc'[u] # "scan"
      PROVE  Shows(f, v)'
  BY <1>e DEF Shows
<1>1. ASSUME NEW f \in File PROVE Shows(f, due[f])'
  <2>1. PICK d \in Nat : d = due'[f]
    BY <1>v
  <2>2. CASE due' = due
    BY <2>1, <2>2, ShownStep DEF Promised, Shows
  <2>3. CASE Lapse
    <3>1. d <= version'[f] /\ ~Cached' /\ \A u \in Thread : pc'[u] # "scan"
      BY <2>1, <2>3, <1>v DEF Lapse, Cached, ListingMuFree, Typed, TypeOK, Listing, Files
    <3> QED
      BY <3>1, <2>1, <1>e DEF Shows
  <2>4. ASSUME NEW u \in Thread, Respond(u) PROVE Shows(f, due[f])'
    <3>1. Shows(f, d)
      BY <2>1, <2>4, <1>v DEF Respond, Promised, Told
    <3>2. Shows(f, d)'
      BY <3>1, ShownStep
    <3> QED
      BY <3>2, <2>1 DEF Shows
  <2>5. due' = due \/ Lapse \/ \E u \in Thread : Respond(u)
    BY DEF Next, vars, Ghost, Request, ServeCached, ScanNames, ScanFile, ScanEnd, ScanFails,
      Delete, Publish, Forget, Compare, Draft, Swap, SwapFails, Outside, Crash
  <2> QED
    BY <2>2, <2>3, <2>4, <2>5
<1>2. ASSUME NEW t \in Thread, Told(t)', req'[t].file \in File
      PROVE  Shows(req[t].file, req[t].made)'
  <2>1. PICK f \in File, m \in Nat : f = req'[t].file /\ m = req'[t].made
    BY <1>2, <1>p DEF Req
  <2>2. CASE Told(t) /\ req'[t] = req[t]
    <3>1. Shows(f, m)
      BY <2>1, <2>2 DEF Promised
    <3>2. Shows(f, m)'
      BY <3>1, ShownStep
    <3> QED
      BY <3>2, <2>1 DEF Shows
  <2>3. CASE Forget(t)
    <3>1. m <= version'[f] /\ ~Cached' /\ \A u \in Thread : pc'[u] # "scan"
      BY <2>1, <2>3, <1>p DEF Forget, Invalidated, NoListing, Cached, ListingMuFree, Promised, Files
    <3> QED
      BY <3>1, <2>1, <1>e DEF Shows
  <2>4. CASE Swap(t)
    <3>1. m <= version'[f]
      BY <2>1, <2>4, <1>v, <1>p DEF Swap
    <3>2. ~Cached' /\ \A u \in Thread : pc'[u] # "scan"
      BY <2>4, <1>p DEF Swap, NoListing, Cached, Alone
    <3> QED
      BY <3>1, <3>2, <2>1, <1>e DEF Shows
  <2> QED
    BY <1>2, <2>2, <2>3, <2>4, Entering DEF Entered
<1>3. ASSUME NEW t \in Thread, pc'[t] \in {"list", "scan"}, NEW f \in File
      PROVE  Shows(f, req[t].since[f])'
  <2>1. PICK v \in Nat : v = req'[t].since[f]
    BY <1>p DEF Req, Versions
  <2>2. CASE pc[t] \in {"list", "scan"} /\ req'[t] = req[t]
    <3>1. Shows(f, v)
      BY <2>1, <2>2 DEF Promised
    <3>2. Shows(f, v)'
      BY <3>1, ShownStep
    <3> QED
      BY <3>2, <2>1 DEF Shows
  <2>3. CASE Request(t)
    <3>1. v = Since[f] /\ UNCHANGED <<listing, version>> /\ pc' = [pc EXCEPT ![t] = "list"]
      <4>1. CASE Goto(t, "list") /\
                 req' = [req EXCEPT ![t] = [NoReq EXCEPT !.op = "list", !.since = Since]]
        <5>1. req'[t].since = Since
          BY <4>1, <1>p DEF NoReq
        <5> QED
          BY <5>1, <2>1, <2>3, <4>1 DEF Request, Files
      <4>2. ASSUME NEW op \in {"publish", "save", "delete"}, Goto(t, op) PROVE FALSE
        BY <1>3, <4>2, <1>p
      <4> QED
        BY <2>3, <4>1, <4>2 DEF Request
    <3>2. CASE Cached \/ ~ListingMuFree
      <4>1. Shows(f, v)
        BY <3>1, <3>2 DEF Since, Promised
      <4>2. Shows(f, v)'
        BY <4>1, ShownStep
      <4> QED
        BY <4>2, <2>1 DEF Shows
    <3>3. CASE ~Cached /\ ListingMuFree
      <4>1. v <= version'[f] /\ ~Cached' /\ \A u \in Thread : pc'[u] # "scan"
        BY <3>1, <3>3, <1>v, <1>p DEF Since, Cached, ListingMuFree
      <4> QED
        BY <4>1, <2>1, <1>e DEF Shows
    <3> QED
      BY <3>2, <3>3
  <2> QED
    BY <1>3, <2>2, <2>3, Entering DEF Entered
<1>4. ASSUME NEW t \in Thread, pc'[t] = "forget", req'[t].file \in File
      PROVE  req'[t].made <= version'[req'[t].file]
  <2>1. CASE pc[t] = "forget" /\ req'[t] = req[t]
    BY <1>4, <2>1, <1>v, <1>p, VersionsGrow DEF Promised, Req
  <2>2. CASE Delete(t)
    <3>1. pc'[t] # "done"
      BY <1>4
    <3>2. req' = [req EXCEPT ![t].made = version'[req[t].file]]
      BY <2>2, <3>1, <1>p DEF Delete
    <3>3. req'[t].made = version'[req[t].file] /\ req'[t].file = req[t].file
      BY <3>2, <1>p DEF Req
    <3> QED
      BY <1>4, <3>3, <1>v
  <2>3. CASE Publish(t)
    <3>1. CASE req' = [req EXCEPT ![t].file = NoFile]
      BY <1>4, <3>1, <1>p, ListingNames DEF File
    <3>2. ASSUME NEW f \in Name, Change(f, req[t].text, "service"),
                 req' = [req EXCEPT ![t].file = f, ![t].made = version'[f]]
          PROVE  req'[t].made <= version'[req'[t].file]
      <4>1. req'[t].made = version'[f] /\ req'[t].file = f
        BY <3>2, <1>p DEF Req
      <4> QED
        BY <4>1, <1>v DEF File
    <3>3. pc'[t] # "done"
      BY <1>4
    <3>4. ASSUME NEW f \in IF req[t].file \in {g \in Name : disk[g] = Absent}
                         THEN {req[t].file} ELSE {g \in Name : disk[g] = Absent}
          PROVE  f \in Name
      OBVIOUS
    <3> QED
      BY <2>3, <3>1, <3>2, <3>3, <3>4, <1>p DEF Publish
  <2> QED
    BY <1>4, <2>1, <2>2, <2>3, Entering DEF Entered
<1> QED
  BY <1>1, <1>2, <1>3, <1>4 DEF Promised

\* A listing that is handed out owes no more than was promised.
LEMMA CurrentStep ==
  ASSUME Typed, Promised, ListCurrent, [Next]_vars
  PROVE  ListCurrent'
<1> USE DEF Goto, Answer
<1> SUFFICES ASSUME NEW t \in Thread, Listed(t)', NEW f \in File
             PROVE  look'[t].seen[f] >= req'[t].since[f]
  BY DEF ListCurrent
<1>p. /\ look \in [Thread -> Look] /\ req \in [Thread -> Req] /\ listing \in Listing
  BY DEF Typed, TypeOK
<1>1. CASE Listed(t) /\ req'[t] = req[t] /\ look'[t] = look[t]
  BY <1>1 DEF ListCurrent
<1>2. CASE ServeCached(t)
  <2>1. req[t].since[f] <= listing.seen[f]
    BY <1>2 DEF ServeCached, Promised, Shows
  <2>2. look'[t].seen = listing.seen /\ req'[t] = req[t]
    BY <1>2, <1>p DEF ServeCached
  <2> QED
    BY <2>1, <2>2, <1>p DEF Listing, Req, Versions
<1>3. CASE ScanEnd(t)
  <2>1. req[t].since[f] <= look[t].seen[f]
    BY <1>3 DEF ScanEnd, Promised, Shows
  <2> QED
    BY <1>3, <2>1, <1>p DEF ScanEnd, Look, Req, Versions
<1> QED
  BY <1>1, <1>2, <1>3, Entering DEF Entered

\* Init is idle: there is nothing to show.
LEMMA CurrentInit == Init => Current
<1> SUFFICES ASSUME Init PROVE Current
  OBVIOUS
<1>1. Typed
  BY TypedInit
<1>2. Alone /\ Promised /\ ListCurrent
  BY DEF Init, Alone, Promised, ListCurrent, Listed, Shows, Told, Cached, NoListing, None, File
<1> QED
  BY <1>1, <1>2 DEF Current

\* Every listing shows what the client was told before, what other programs did
\* before the cache ran out, and everything if nothing was cached: the answer to
\* a scan that runs while files change is that invalidation waits for it
\* (file_listing.go:24).  For any number of requests and files.
THEOREM AlwaysCurrent == Spec => []ListCurrent
<1>1. Current /\ [Next]_vars => Current'
  BY TypedStep, AloneStep, PromisedStep, CurrentStep DEF Current
<1>2. Current => ListCurrent
  BY DEF Current
<1> QED
  BY <1>1, <1>2, CurrentInit, PTL DEF Spec
-----------------------------------------------------------------------------
(* What an edit replaces *)

\* s.mu is held by one goroutine at a time.
HoldsMu(t) == pc[t] \in {"draft", "swap"} \/ (pc[t] = "forget" /\ req[t].op = "delete")
OneHolder == \A t, u \in Thread : HoldsMu(t) /\ HoldsMu(u) => t = u

\* From its comparison on, an edit's file is what its editor loaded.
Untouched == \A t \in Thread : pc[t] \in {"draft", "swap"} =>
  disk[req[t].file] = req[t].loaded \/ by[req[t].file] = "outside"

Guarded == Typed /\ OneHolder /\ Untouched

\* Who takes the mutex finds it free.
LEMMA OneHolderStep == ASSUME Typed, OneHolder, [Next]_vars PROVE OneHolder'
<1> USE DEF Goto, Answer
<1>p. pc \in [Thread -> Pc] /\ req \in [Thread -> Req]
  BY DEF Typed, TypeOK
<1>f. MuFree <=> \A u \in Thread : ~HoldsMu(u)
  BY DEF MuFree, HoldsMu
<1>q. ASSUME NEW t \in Thread, MuFree \/ HoldsMu(t) \/ ~HoldsMu(t)',
             \A u \in Thread \ {t} : pc'[u] = pc[u] /\ req'[u] = req[u]
      PROVE  OneHolder'
  BY <1>f, <1>q DEF OneHolder, HoldsMu
<1>0. CASE UNCHANGED vars
  BY <1>0 DEF vars, OneHolder, HoldsMu
<1>1. ASSUME NEW t \in Thread, Request(t) PROVE OneHolder'
  <2>1. \A u \in Thread \ {t} : pc'[u] = pc[u] /\ req'[u] = req[u]
    BY <1>1, <1>p DEF Request
  <2>2. MuFree \/ HoldsMu(t) \/ ~HoldsMu(t)'
    BY <1>1, <1>p DEF Request, HoldsMu
  <2> QED
    BY <2>1, <2>2, <1>q
<1>2. ASSUME NEW t \in Thread, Respond(t) PROVE OneHolder'
  <2>1. \A u \in Thread \ {t} : pc'[u] = pc[u] /\ req'[u] = req[u]
    BY <1>2, <1>p DEF Respond
  <2>2. MuFree \/ HoldsMu(t) \/ ~HoldsMu(t)'
    BY <1>2, <1>p DEF Respond, HoldsMu
  <2> QED
    BY <2>1, <2>2, <1>q
<1>3. ASSUME NEW t \in Thread, ServeCached(t) PROVE OneHolder'
  <2>1. \A u \in Thread \ {t} : pc'[u] = pc[u] /\ req'[u] = req[u]
    BY <1>3, <1>p DEF ServeCached
  <2>2. MuFree \/ HoldsMu(t) \/ ~HoldsMu(t)'
    BY <1>3, <1>p DEF ServeCached, HoldsMu
  <2> QED
    BY <2>1, <2>2, <1>q
<1>4. ASSUME NEW t \in Thread, ScanNames(t) PROVE OneHolder'
  <2>1. \A u \in Thread \ {t} : pc'[u] = pc[u] /\ req'[u] = req[u]
    BY <1>4, <1>p DEF ScanNames
  <2>2. MuFree \/ HoldsMu(t) \/ ~HoldsMu(t)'
    BY <1>4, <1>p DEF ScanNames, HoldsMu
  <2> QED
    BY <2>1, <2>2, <1>q
<1>5. ASSUME NEW t \in Thread, ScanFile(t) PROVE OneHolder'
  <2>1. \A u \in Thread \ {t} : pc'[u] = pc[u] /\ req'[u] = req[u]
    BY <1>5, <1>p DEF ScanFile
  <2>2. MuFree \/ HoldsMu(t) \/ ~HoldsMu(t)'
    BY <1>5, <1>p DEF ScanFile, HoldsMu
  <2> QED
    BY <2>1, <2>2, <1>q
<1>6. ASSUME NEW t \in Thread, ScanEnd(t) PROVE OneHolder'
  <2>1. \A u \in Thread \ {t} : pc'[u] = pc[u] /\ req'[u] = req[u]
    BY <1>6, <1>p DEF ScanEnd
  <2>2. MuFree \/ HoldsMu(t) \/ ~HoldsMu(t)'
    BY <1>6, <1>p DEF ScanEnd, HoldsMu
  <2> QED
    BY <2>1, <2>2, <1>q
<1>7. ASSUME NEW t \in Thread, ScanFails(t) PROVE OneHolder'
  <2>1. \A u \in Thread \ {t} : pc'[u] = pc[u] /\ req'[u] = req[u]
    BY <1>7, <1>p DEF ScanFails
  <2>2. MuFree \/ HoldsMu(t) \/ ~HoldsMu(t)'
    BY <1>7, <1>p DEF ScanFails, HoldsMu
  <2> QED
    BY <2>1, <2>2, <1>q
<1>8. ASSUME NEW t \in Thread, Delete(t) PROVE OneHolder'
  <2>1. \A u \in Thread \ {t} : pc'[u] = pc[u] /\ req'[u] = req[u]
    BY <1>8, <1>p DEF Delete
  <2>2. MuFree \/ HoldsMu(t) \/ ~HoldsMu(t)'
    BY <1>8, <1>p DEF Delete, HoldsMu
  <2> QED
    BY <2>1, <2>2, <1>q
<1>9. ASSUME NEW t \in Thread, Publish(t) PROVE OneHolder'
  <2>1. \A u \in Thread \ {t} : pc'[u] = pc[u] /\ req'[u] = req[u]
    BY <1>9, <1>p DEF Publish
  <2>2. MuFree \/ HoldsMu(t) \/ ~HoldsMu(t)'
    BY <1>9, <1>p DEF Publish, HoldsMu
  <2> QED
    BY <2>1, <2>2, <1>q
<1>10. ASSUME NEW t \in Thread, Forget(t) PROVE OneHolder'
  <2>1. \A u \in Thread \ {t} : pc'[u] = pc[u] /\ req'[u] = req[u]
    BY <1>10, <1>p DEF Forget
  <2>2. MuFree \/ HoldsMu(t) \/ ~HoldsMu(t)'
    BY <1>10, <1>p DEF Forget, HoldsMu
  <2> QED
    BY <2>1, <2>2, <1>q
<1>11. ASSUME NEW t \in Thread, Compare(t) PROVE OneHolder'
  <2>1. \A u \in Thread \ {t} : pc'[u] = pc[u] /\ req'[u] = req[u]
    BY <1>11, <1>p DEF Compare
  <2>2. MuFree \/ HoldsMu(t) \/ ~HoldsMu(t)'
    BY <1>11, <1>p DEF Compare, HoldsMu
  <2> QED
    BY <2>1, <2>2, <1>q
<1>12. ASSUME NEW t \in Thread, Draft(t) PROVE OneHolder'
  <2>1. \A u \in Thread \ {t} : pc'[u] = pc[u] /\ req'[u] = req[u]
    BY <1>12, <1>p DEF Draft
  <2>2. MuFree \/ HoldsMu(t) \/ ~HoldsMu(t)'
    BY <1>12, <1>p DEF Draft, HoldsMu
  <2> QED
    BY <2>1, <2>2, <1>q
<1>13. ASSUME NEW t \in Thread, Swap(t) PROVE OneHolder'
  <2>1. \A u \in Thread \ {t} : pc'[u] = pc[u] /\ req'[u] = req[u]
    BY <1>13, <1>p DEF Swap
  <2>2. MuFree \/ HoldsMu(t) \/ ~HoldsMu(t)'
    BY <1>13, <1>p DEF Swap, HoldsMu
  <2> QED
    BY <2>1, <2>2, <1>q
<1>14. ASSUME NEW t \in Thread, SwapFails(t) PROVE OneHolder'
  <2>1. \A u \in Thread \ {t} : pc'[u] = pc[u] /\ req'[u] = req[u]
    BY <1>14, <1>p DEF SwapFails
  <2>2. MuFree \/ HoldsMu(t) \/ ~HoldsMu(t)'
    BY <1>14, <1>p DEF SwapFails, HoldsMu
  <2> QED
    BY <2>1, <2>2, <1>q
<1>15. CASE Lapse
  BY <1>15 DEF Lapse, OneHolder, HoldsMu
<1>16. CASE Outside
  BY <1>16 DEF Outside, OneHolder, HoldsMu
<1>17. CASE Crash
  BY <1>17 DEF Crash, OneHolder, HoldsMu
<1> QED
  BY <1>0, <1>1, <1>2, <1>3, <1>4, <1>5, <1>6, <1>7, <1>8, <1>9,
    <1>10, <1>11, <1>12, <1>13, <1>14, <1>15, <1>16, <1>17 DEF Next

\* Only the holder of the mutex replaces a file that was compared, or someone outside.
LEMMA UntouchedStep ==
  ASSUME Typed, OneHolder, Untouched, [Next]_vars
  PROVE  Untouched'
<1> SUFFICES ASSUME NEW e \in Thread, pc'[e] \in {"draft", "swap"}
             PROVE  disk'[req'[e].file] = req'[e].loaded \/ by'[req'[e].file] = "outside"
  BY DEF Untouched
<1> USE DEF Goto, Answer, Files
<1>p. /\ pc \in [Thread -> Pc] /\ req \in [Thread -> Req]
      /\ disk \in [File -> Content \cup {Absent}] /\ by \in [File -> {"service", "outside"}]
  BY DEF Typed, TypeOK
<1>r. pc[e] \in {"draft", "swap"} => req[e].file \in Name /\ req[e].file \in File /\ HoldsMu(e)
  BY DEF Typed, Ready, File, HoldsMu
\* Nobody else's step touches the file but an outsider's.
<1>k. ASSUME pc[e] \in {"draft", "swap"}, req'[e].file = req[e].file, req'[e].loaded = req[e].loaded,
             \/ disk'[req[e].file] = disk[req[e].file] /\ by'[req[e].file] = by[req[e].file]
             \/ by'[req[e].file] = "outside"
      PROVE  disk'[req'[e].file] = req'[e].loaded \/ by'[req'[e].file] = "outside"
  BY <1>k DEF Untouched
<1>m. MuFree => pc[e] \notin {"draft", "swap"}
  BY <1>r DEF MuFree
<1>0. CASE UNCHANGED vars
  BY <1>0, <1>k DEF vars
<1>1. ASSUME NEW t \in Thread, Request(t) PROVE disk'[req'[e].file] = req'[e].loaded \/ by'[req'[e].file] = "outside"
  <2>1. pc[e] \in {"draft", "swap"} /\ req'[e] = req[e] /\ UNCHANGED <<disk, by>>
    BY <1>1, <1>p DEF Request
  <2> QED
    BY <2>1, <1>k
<1>2. ASSUME NEW t \in Thread, Respond(t) PROVE disk'[req'[e].file] = req'[e].loaded \/ by'[req'[e].file] = "outside"
  <2>1. pc[e] \in {"draft", "swap"} /\ req'[e] = req[e] /\ UNCHANGED <<disk, by>>
    BY <1>2, <1>p DEF Respond
  <2> QED
    BY <2>1, <1>k
<1>3. ASSUME NEW t \in Thread, ServeCached(t) PROVE disk'[req'[e].file] = req'[e].loaded \/ by'[req'[e].file] = "outside"
  <2>1. pc[e] \in {"draft", "swap"} /\ req'[e] = req[e] /\ UNCHANGED <<disk, by>>
    BY <1>3, <1>p DEF ServeCached
  <2> QED
    BY <2>1, <1>k
<1>4. ASSUME NEW t \in Thread, ScanNames(t) PROVE disk'[req'[e].file] = req'[e].loaded \/ by'[req'[e].file] = "outside"
  <2>1. pc[e] \in {"draft", "swap"} /\ req'[e] = req[e] /\ UNCHANGED <<disk, by>>
    BY <1>4, <1>p DEF ScanNames
  <2> QED
    BY <2>1, <1>k
<1>5. ASSUME NEW t \in Thread, ScanFile(t) PROVE disk'[req'[e].file] = req'[e].loaded \/ by'[req'[e].file] = "outside"
  <2>1. pc[e] \in {"draft", "swap"} /\ req'[e] = req[e] /\ UNCHANGED <<disk, by>>
    BY <1>5, <1>p DEF ScanFile
  <2> QED
    BY <2>1, <1>k
<1>6. ASSUME NEW t \in Thread, ScanEnd(t) PROVE disk'[req'[e].file] = req'[e].loaded \/ by'[req'[e].file] = "outside"
  <2>1. pc[e] \in {"draft", "swap"} /\ req'[e] = req[e] /\ UNCHANGED <<disk, by>>
    BY <1>6, <1>p DEF ScanEnd
  <2> QED
    BY <2>1, <1>k
<1>7. ASSUME NEW t \in Thread, ScanFails(t) PROVE disk'[req'[e].file] = req'[e].loaded \/ by'[req'[e].file] = "outside"
  <2>1. pc[e] \in {"draft", "swap"} /\ req'[e] = req[e] /\ UNCHANGED <<disk, by>>
    BY <1>7, <1>p DEF ScanFails
  <2> QED
    BY <2>1, <1>k
<1>8. ASSUME NEW t \in Thread, Delete(t) PROVE disk'[req'[e].file] = req'[e].loaded \/ by'[req'[e].file] = "outside"
  <2>1. pc'[e] = pc[e]
    BY <1>8, <1>p DEF Delete
  <2> QED
    BY <1>8, <2>1, <1>m DEF Delete
<1>9. ASSUME NEW t \in Thread, Publish(t) PROVE disk'[req'[e].file] = req'[e].loaded \/ by'[req'[e].file] = "outside"
  <2>1. pc'[e] = pc[e]
    BY <1>9, <1>p DEF Publish
  <2> QED
    BY <1>9, <2>1, <1>m DEF Publish
<1>10. ASSUME NEW t \in Thread, Forget(t) PROVE disk'[req'[e].file] = req'[e].loaded \/ by'[req'[e].file] = "outside"
  <2>1. pc[e] \in {"draft", "swap"} /\ req'[e] = req[e] /\ UNCHANGED <<disk, by>>
    BY <1>10, <1>p DEF Forget
  <2> QED
    BY <2>1, <1>k
<1>11. ASSUME NEW t \in Thread, Compare(t) PROVE disk'[req'[e].file] = req'[e].loaded \/ by'[req'[e].file] = "outside"
  <2>1. CASE e = t
    BY <1>11, <2>1, <1>p DEF Compare
  <2>2. CASE e # t
    BY <1>11, <2>2, <1>p, <1>m DEF Compare
  <2> QED
    BY <2>1, <2>2
<1>12. ASSUME NEW t \in Thread, Draft(t) PROVE disk'[req'[e].file] = req'[e].loaded \/ by'[req'[e].file] = "outside"
  <2>1. pc[e] \in {"draft", "swap"}
    BY <1>12, <1>p DEF Draft
  <2>2. req'[e].file = req[e].file /\ req'[e].loaded = req[e].loaded
    BY <1>12, <1>p DEF Draft, Req
  <2>3. disk'[req[e].file] = disk[req[e].file] /\ by'[req[e].file] = by[req[e].file]
    BY <1>12, <2>1, <1>p, <1>r, ListingNames DEF Draft, DraftNames, Change
  <2> QED
    BY <2>1, <2>2, <2>3, <1>k
<1>13. ASSUME NEW t \in Thread, Swap(t) PROVE disk'[req'[e].file] = req'[e].loaded \/ by'[req'[e].file] = "outside"
  <2>1. HoldsMu(t) /\ e # t /\ pc[e] \in {"draft", "swap"}
    BY <1>13, <1>p DEF Swap, HoldsMu
  <2> QED
    BY <2>1, <1>r DEF OneHolder
<1>14. ASSUME NEW t \in Thread, SwapFails(t) PROVE disk'[req'[e].file] = req'[e].loaded \/ by'[req'[e].file] = "outside"
  <2>1. pc[e] \in {"draft", "swap"} /\ req'[e] = req[e]
    BY <1>14, <1>p DEF SwapFails
  <2>2. req[t].temp \in Temp
    BY <1>14 DEF SwapFails, Typed, Ready
  <2>3. disk'[req[e].file] = disk[req[e].file] /\ by'[req[e].file] = by[req[e].file]
    BY <1>14, <2>1, <2>2, <1>p, <1>r, ListingNames DEF SwapFails, Change
  <2> QED
    BY <2>1, <2>3, <1>k
<1>15. CASE Lapse
  BY <1>15, <1>k DEF Lapse
<1>16. CASE Outside
  BY <1>16, <1>k, <1>p, <1>r DEF Outside, Change
<1>17. CASE Crash
  BY <1>17 DEF Crash
<1> QED
  BY <1>0, <1>1, <1>2, <1>3, <1>4, <1>5, <1>6, <1>7, <1>8, <1>9,
    <1>10, <1>11, <1>12, <1>13, <1>14, <1>15, <1>16, <1>17 DEF Next

\* An edit replaces the very content its editor had loaded, for any number of
\* editors, deletions and uploads; only another program can come in between
\* (text.go:87-147).
THEOREM NeverLostEdit == Spec => NoLostEdit
<1>1. Init => Guarded
  BY TypedInit DEF Init, Guarded, OneHolder, HoldsMu, Untouched
<1>2. Guarded /\ [Next]_vars => Guarded'
  BY TypedStep, OneHolderStep, UntouchedStep DEF Guarded
<1>3. Guarded => \A t \in Thread : pc[t] = "swap" /\ answer'[t] = "saved" =>
                   disk[req[t].file] = req[t].loaded \/ by[req[t].file] = "outside"
  BY DEF Guarded, Untouched
<1> QED
  BY <1>1, <1>2, <1>3, PTL DEF Spec, NoLostEdit
-----------------------------------------------------------------------------
(* The temporary files of edits *)

\* A temporary file that lies in the directory belongs to the edit that is about
\* to put it in its file's place, or is one that was left behind.
Laid == \A x \in Temp : disk[x] # Absent =>
          x \in orphans \/ \E t \in Thread : pc[t] = "swap" /\ req[t].temp = x
Hides(shown) == shown \cap Temp \subseteq orphans
\* No scan runs beside such an edit, and what was scanned shows none.
Hidden ==
  /\ Laid
  /\ Hides(listing.shown)
  /\ \A t \in Thread : pc[t] = "scan" \/ Listed(t) => Hides(look[t].shown)
Hiding == Typed /\ Alone /\ Hidden

\* What an edit could not remove is never forgotten.
LEMMA OrphansGrow == ASSUME Typed, [Next]_vars PROVE orphans \subseteq orphans'
BY DEF Next, vars, Request, Respond, ServeCached, ScanNames, ScanFile, ScanEnd, ScanFails, Delete,
  Publish, Forget, Compare, Draft, Swap, SwapFails, Lapse, Outside, Crash, Files, Ghost

\* A step of t that changes no temporary file and starts or ends no swap.
LEMMA LaidKept ==
  ASSUME Typed, Laid, orphans \subseteq orphans', NEW t \in Thread, NEW p, NEW r,
         pc' = [pc EXCEPT ![t] = p], req' = [req EXCEPT ![t] = r], pc[t] # "swap", p # "swap",
         \A x \in Temp : disk'[x] # Absent => disk[x] # Absent
  PROVE  Laid'
<1>1. \A u \in Thread : pc[u] = "swap" => pc'[u] = "swap" /\ req'[u] = req[u]
  BY DEF Typed, TypeOK
<1> QED  BY <1>1 DEF Laid

\* The file that is changed, and its name, are no temporary.
LEMMA OtherFiles ==
  ASSUME Typed, NEW f \in Name, NEW c, NEW who, Change(f, c, who)
  PROVE  \A x \in Temp : disk'[x] = disk[x]
BY ListingNames DEF Change, Typed, TypeOK, File

\* Only an edit lays a temporary file, and takes it away or leaves it an orphan.
LEMMA LaidStep == ASSUME Hiding, [Next]_vars PROVE Laid'
<1>0. Typed /\ Ready /\ Alone /\ Laid /\ orphans \subseteq orphans'
      /\ pc \in [Thread -> Pc] /\ req \in [Thread -> Req]
  BY OrphansGrow DEF Hiding, Hidden, Typed, TypeOK
<1>k. ASSUME UNCHANGED <<pc, req>>, \A x \in Temp : disk'[x] # Absent => disk[x] # Absent
      PROVE  Laid'
  BY <1>0, <1>k DEF Laid
<1>l. ASSUME NEW t \in Thread, NEW p, pc' = [pc EXCEPT ![t] = p], UNCHANGED req,
             pc[t] # "swap", p # "swap", \A x \in Temp : disk'[x] # Absent => disk[x] # Absent
      PROVE  Laid'
  <2>1. req' = [req EXCEPT ![t] = req[t]]
    BY <1>0, <1>l
  <2> QED  BY <1>0, <1>l, <2>1, LaidKept
<1>1. ASSUME NEW t \in Thread, Request(t) PROVE Laid'
  <2>1. \E p : Goto(t, p) /\ p # "swap"
    <3>1. Goto(t, "list") \/ Goto(t, "publish") \/ Goto(t, "save") \/ Goto(t, "delete")
      BY <1>1 DEF Request
    <3> QED  BY <3>1
  <2>2. \E r : req' = [req EXCEPT ![t] = r]
    BY <1>1 DEF Request
  <2>3. pc[t] # "swap" /\ disk' = disk
    BY <1>1 DEF Request, Files
  <2> QED  BY <1>0, <2>1, <2>2, <2>3, LaidKept DEF Goto
<1> USE DEF Goto, Answer, Files, Ghost
<1>2. ASSUME NEW t \in Thread, Respond(t) PROVE Laid'
  BY <1>0, <1>2, LaidKept DEF Respond
<1>3. ASSUME NEW t \in Thread, ServeCached(t) \/ ScanNames(t) \/ ScanEnd(t) \/ ScanFails(t) PROVE Laid'
  BY <1>3, <1>l DEF ServeCached, ScanNames, ScanEnd, ScanFails
<1>4. ASSUME NEW t \in Thread, ScanFile(t) PROVE Laid'
  BY <1>4, <1>k DEF ScanFile
<1>5. ASSUME NEW t \in Thread, Delete(t) PROVE Laid'
  <2>1. CASE UNCHANGED <<req, disk>>
    BY <1>5, <2>1, <1>l DEF Delete
  <2>2. CASE Change(req[t].file, Absent, "service") /\ Goto(t, "forget")
    <3>1. \A x \in Temp : disk'[x] # Absent => disk[x] # Absent
      BY <1>0, <2>2 DEF Change, Typed, TypeOK, File
    <3>2. \E r : req' = [req EXCEPT ![t] = r]
      BY <1>0, <1>5, <2>2 DEF Delete
    <3> QED  BY <1>0, <1>5, <2>2, <3>1, <3>2, LaidKept DEF Delete
  <2> QED  BY <1>5, <2>1, <2>2 DEF Delete
<1>6. ASSUME NEW t \in Thread, Publish(t) PROVE Laid'
  <2>1. \A x \in Temp : disk'[x] = disk[x]
    <3>1. \/ disk' = disk
          \/ \E f \in Name : Change(f, req[t].text, "service")
      BY <1>0, <1>6 DEF Publish
    <3> QED  BY <1>0, <3>1, OtherFiles
  <2>2. \E r : req' = [req EXCEPT ![t] = r]
    <3>1. req' = req \/ \E r : req' = [req EXCEPT ![t] = r]
      BY <1>6 DEF Publish
    <3>2. req = [req EXCEPT ![t] = req[t]]
      BY <1>0
    <3> QED  BY <3>1, <3>2
  <2>3. pc[t] # "swap" /\ \E p : p # "swap" /\ pc' = [pc EXCEPT ![t] = p]
    BY <1>6 DEF Publish
  <2>4. \A x \in Temp : disk'[x] # Absent => disk[x] # Absent
    BY <2>1
  <2>5. PICK r : req' = [req EXCEPT ![t] = r]
    BY <2>2
  <2>6. PICK p : p # "swap" /\ pc' = [pc EXCEPT ![t] = p]
    BY <2>3
  <2> QED  BY <1>0, <2>3, <2>4, <2>5, <2>6, LaidKept
<1>7. ASSUME NEW t \in Thread, Forget(t) \/ Compare(t) PROVE Laid'
  BY <1>7, <1>l DEF Forget, Compare
<1>8. ASSUME NEW t \in Thread, Draft(t) PROVE Laid'
  <2>1. CASE Goto(t, "done") /\ UNCHANGED <<req, disk>>
    BY <1>8, <2>1, <1>l DEF Draft
  <2>2. ASSUME NEW x \in Temp, Change(x, req[t].text, "service"), Goto(t, "swap"),
               req' = [req EXCEPT ![t].temp = x]
        PROVE  Laid'
    <3>1. \A y \in Temp : y # x => disk'[y] = disk[y]
      BY <1>0, <2>2 DEF Change, Typed, TypeOK, File
    <3>2. pc'[t] = "swap" /\ req'[t].temp = x
      BY <1>0, <2>2 DEF Req
    <3>3. \A u \in Thread \ {t} : pc'[u] = pc[u] /\ req'[u] = req[u]
      BY <1>0, <2>2
    <3>4. pc[t] # "swap"
      BY <1>8 DEF Draft
    <3> QED  BY <1>0, <3>1, <3>2, <3>3, <3>4 DEF Laid
  <2> QED  BY <1>8, <2>1, <2>2 DEF Draft, DraftNames
<1>9. ASSUME NEW t \in Thread, Swap(t) \/ SwapFails(t) PROVE Laid'
  <2>1. pc[t] = "swap" /\ req[t].temp \in Temp /\ req[t].file \in Name
    BY <1>0, <1>9 DEF Swap, SwapFails, Ready
  <2>2. \A u \in Thread : pc[u] = "swap" => u = t
    BY <1>0, <2>1 DEF Alone
  <2>3. \A y \in Temp : y # req[t].temp => disk'[y] = disk[y]
    BY <1>0, <1>9, <2>1, ListingNames DEF Swap, SwapFails, Change, Typed, TypeOK, File
  <2>4. disk'[req[t].temp] = Absent \/ req[t].temp \in orphans'
    BY <1>0, <1>9, <2>1 DEF Swap, SwapFails, Change, Typed, TypeOK, File
  <2> QED  BY <1>0, <2>2, <2>3, <2>4 DEF Laid
<1>10. CASE Lapse \/ UNCHANGED vars
  BY <1>10, <1>k DEF Lapse, vars
<1>11. CASE Outside
  BY <1>0, <1>11, <1>k, OtherFiles DEF Outside
<1>12. CASE Crash
  BY <1>0, <1>12 DEF Crash, Laid
<1> QED
  BY <1>1, <1>2, <1>3, <1>4, <1>5, <1>6, <1>7, <1>8, <1>9, <1>10, <1>11, <1>12 DEF Next

\* What is listed, and what a scan has found so far, stays free of temporaries.
LEMMA HiddenStep == ASSUME Hiding, [Next]_vars PROVE Hidden'
<1>0. /\ Typed /\ Alone /\ Hidden /\ orphans \subseteq orphans'
      /\ pc \in [Thread -> Pc] /\ look \in [Thread -> Look] /\ answer \in [Thread -> Kind]
  BY OrphansGrow DEF Hiding, Typed, TypeOK
<1>h. Hides({})' /\ \A z : Hides(z) => Hides(z)'
  BY <1>0 DEF Hides
<1>n. Hides(NoListing.shown)' /\ Hides(NoLook.shown)'
  BY <1>h DEF NoListing, NoLook
<1> DEFINE Fair(t) == pc[t] = "scan" \/ Listed(t) => Hides(look[t].shown)
<1> SUFFICES Hides(listing.shown)' /\ \A t \in Thread : Fair(t)'
  BY LaidStep DEF Hidden
<1>m. ASSUME NEW t \in Thread,
             \A u \in Thread \ {t} : pc'[u] = pc[u] /\ answer'[u] = answer[u] /\ look'[u] = look[u],
             pc'[t] = "scan" \/ Listed(t)' => Hides(look[t].shown)' \/ Hides(look'[t].shown),
             Hides(listing'.shown) \/ listing' = NoListing
      PROVE  Hides(listing.shown)' /\ \A u \in Thread : Fair(u)'
  <2>1. \A u \in Thread \ {t} : Fair(u)'
    <3> SUFFICES ASSUME NEW u \in Thread \ {t} PROVE Fair(u)'
      OBVIOUS
    <3>1. pc'[u] = pc[u] /\ answer'[u] = answer[u] /\ look'[u] = look[u]
      BY <1>m
    <3>2. Fair(u)
      BY <1>0 DEF Hidden
    <3> QED  BY <3>1, <3>2, <1>h DEF Listed
  <2>2. Fair(t)'
    BY <1>h, <1>m
  <2>3. Hides(listing.shown)'
    BY <1>h, <1>n, <1>m
  <2> QED  BY <2>1, <2>2, <2>3
<1>s. ASSUME UNCHANGED <<pc, answer, look>>, Hides(listing'.shown) \/ listing' = NoListing
      PROVE  Hides(listing.shown)' /\ \A u \in Thread : Fair(u)'
  BY <1>0, <1>h, <1>n, <1>s DEF Hidden, Listed
<1>l. Hides(listing.shown)
  BY <1>0 DEF Hidden
<1>t. ASSUME NEW t \in Thread, NEW p, NEW k, p \notin {"scan", "done"} \/ (p = "done" /\ k # "listed"),
             pc' = [pc EXCEPT ![t] = p], answer' = [answer EXCEPT ![t] = k],
             UNCHANGED look, UNCHANGED listing \/ listing' = NoListing
      PROVE  Hides(listing.shown)' /\ \A u \in Thread : Fair(u)'
  <2>1. /\ \A u \in Thread \ {t} : pc'[u] = pc[u] /\ answer'[u] = answer[u] /\ look'[u] = look[u]
        /\ pc'[t] # "scan" /\ ~Listed(t)'
    BY <1>0, <1>t DEF Listed
  <2> QED  BY <1>l, <1>m, <1>t, <2>1
<1>u. ASSUME NEW t \in Thread, NEW p, p \notin {"scan", "done"}, pc' = [pc EXCEPT ![t] = p],
             UNCHANGED <<answer, look, listing>>
      PROVE  Hides(listing.shown)' /\ \A u \in Thread : Fair(u)'
  <2>1. answer' = [answer EXCEPT ![t] = answer[t]]
    BY <1>0, <1>u
  <2> QED  BY <1>t, <1>u, <2>1
<1>1. ASSUME NEW t \in Thread, Request(t) PROVE Hides(listing.shown)' /\ \A u \in Thread : Fair(u)'
  <2>1. \E p : Goto(t, p) /\ p \notin {"scan", "done"}
    <3>1. Goto(t, "list") \/ Goto(t, "publish") \/ Goto(t, "save") \/ Goto(t, "delete")
      BY <1>1 DEF Request
    <3> QED  BY <3>1
  <2> QED  BY <1>1, <1>u, <2>1 DEF Request, Goto
<1> USE DEF Goto, Answer, Files, Ghost
<1>2. ASSUME NEW t \in Thread, Respond(t) PROVE Hides(listing.shown)' /\ \A u \in Thread : Fair(u)'
  <2>1. /\ \A u \in Thread \ {t} : pc'[u] = pc[u] /\ answer'[u] = answer[u] /\ look'[u] = look[u]
        /\ pc'[t] # "scan" /\ ~Listed(t)' /\ listing' = listing
    BY <1>0, <1>2 DEF Respond, Listed
  <2> QED  BY <1>l, <1>m, <2>1
<1>3. ASSUME NEW t \in Thread, ServeCached(t) PROVE Hides(listing.shown)' /\ \A u \in Thread : Fair(u)'
  <2>1. /\ \A u \in Thread \ {t} : pc'[u] = pc[u] /\ answer'[u] = answer[u] /\ look'[u] = look[u]
        /\ look'[t].shown = listing.shown /\ listing' = listing
    BY <1>0, <1>3 DEF ServeCached
  <2> QED  BY <1>l, <1>m, <2>1
<1>4. ASSUME NEW t \in Thread, ScanNames(t) PROVE Hides(listing.shown)' /\ \A u \in Thread : Fair(u)'
  <2>1. /\ \A u \in Thread \ {t} : pc'[u] = pc[u] /\ answer'[u] = answer[u] /\ look'[u] = look[u]
        /\ look'[t].shown = {} /\ listing' = listing
    BY <1>0, <1>4 DEF ScanNames
  <2>2. Hides({})
    BY DEF Hides
  <2> QED  BY <1>l, <1>m, <2>1, <2>2
<1>5. ASSUME NEW t \in Thread, ScanFile(t) PROVE Hides(listing.shown)' /\ \A u \in Thread : Fair(u)'
  <2>1. PICK f \in look[t].todo : look' = [look EXCEPT ![t].todo = @ \ {f}, ![t].seen[f] = version[f],
                  ![t].shown = IF disk[f] = Absent THEN @ ELSE @ \cup {f}]
    BY <1>5 DEF ScanFile
  <2>2. look'[t].shown = IF disk[f] = Absent THEN look[t].shown ELSE look[t].shown \cup {f}
    BY <1>0, <2>1 DEF Look
  <2>3. /\ pc[t] = "scan" /\ listing' = listing
        /\ \A u \in Thread \ {t} : pc'[u] = pc[u] /\ answer'[u] = answer[u] /\ look'[u] = look[u]
    BY <1>0, <1>5, <2>1 DEF ScanFile
  <2>4. f \in Temp /\ disk[f] # Absent => f \in orphans
    BY <1>0, <2>3 DEF Hidden, Laid, Alone
  <2>5. Hides(look[t].shown)
    BY <1>0, <2>3 DEF Hidden
  <2>6. Hides(look'[t].shown)
    BY <2>2, <2>4, <2>5 DEF Hides
  <2> QED  BY <1>l, <1>m, <2>3, <2>6
<1>6. ASSUME NEW t \in Thread, ScanEnd(t) PROVE Hides(listing.shown)' /\ \A u \in Thread : Fair(u)'
  <2>1. /\ \A u \in Thread \ {t} : pc'[u] = pc[u] /\ answer'[u] = answer[u] /\ look'[u] = look[u]
        /\ pc[t] = "scan" /\ look'[t].shown = look[t].shown /\ listing'.shown = look[t].shown
    BY <1>0, <1>6 DEF ScanEnd
  <2>2. Hides(look[t].shown)
    BY <1>0, <2>1 DEF Hidden
  <2> QED  BY <1>m, <2>1, <2>2
<1>7. ASSUME NEW t \in Thread, ScanFails(t) PROVE Hides(listing.shown)' /\ \A u \in Thread : Fair(u)'
  BY <1>7, <1>t DEF ScanFails
<1>8. ASSUME NEW t \in Thread, Delete(t) \/ Publish(t)
      PROVE  Hides(listing.shown)' /\ \A u \in Thread : Fair(u)'
  <2>1. \/ Goto(t, "forget") /\ UNCHANGED <<answer, look, listing>>
        \/ \E k : k # "listed" /\ Answer(t, k) /\ UNCHANGED <<look, listing>>
    BY <1>8 DEF Delete, Publish
  <2> QED  BY <1>t, <1>u, <2>1
<1>9. ASSUME NEW t \in Thread, Forget(t) PROVE Hides(listing.shown)' /\ \A u \in Thread : Fair(u)'
  <2>1. /\ Answer(t, "deleted") \/ Answer(t, "published")
        /\ UNCHANGED look /\ listing' = NoListing
    BY <1>9 DEF Forget, Invalidated
  <2> QED  BY <1>t, <2>1
<1>10. ASSUME NEW t \in Thread, Compare(t) \/ Draft(t) \/ Swap(t) \/ SwapFails(t)
       PROVE  Hides(listing.shown)' /\ \A u \in Thread : Fair(u)'
  <2>1. /\ UNCHANGED look /\ (UNCHANGED listing \/ listing' = NoListing)
        /\ \/ \E p : p \notin {"scan", "done"} /\ Goto(t, p) /\ UNCHANGED <<answer, listing>>
           \/ \E k : k # "listed" /\ Answer(t, k)
    BY <1>10 DEF Compare, Draft, Swap, SwapFails
  <2> QED  BY <1>t, <1>u, <2>1
<1>11. CASE Lapse
  <2>1. listing'.shown = listing.shown /\ UNCHANGED <<pc, answer, look>>
    BY <1>0, <1>11 DEF Lapse, Typed, TypeOK, Listing
  <2> QED  BY <1>l, <1>s, <2>1
<1>12. CASE Outside \/ UNCHANGED vars
  BY <1>l, <1>s, <1>12 DEF Outside, vars
<1>13. CASE Crash
  BY <1>n, <1>13 DEF Crash, Listed
<1> QED
  BY <1>1, <1>2, <1>3, <1>4, <1>5, <1>6, <1>7, <1>8, <1>9, <1>10, <1>11, <1>12, <1>13 DEF Next

\* No listing shows the temporary file of an edit, unless the edit was cut off
\* or could not remove it, whatever scan it meets (text.go:126-147).
THEOREM TempAlwaysHidden == Spec => []TempHidden
<1>1. Init => Hiding
  BY TypedInit DEF Init, Hiding, Alone, Hidden, Laid, Hides, Listed, NoListing
<1>2. Hiding /\ [Next]_vars => Hiding'
  BY TypedStep, AloneStep, LaidStep, HiddenStep DEF Hiding
<1>3. Hiding => TempHidden
  BY DEF Hiding, Hidden, Hides, TempHidden
<1> QED  BY <1>1, <1>2, <1>3, PTL DEF Spec
=============================================================================
