----------------------------- MODULE FileListing -----------------------------
(***************************************************************************)
(* The cached listing of the upload directory and the text editor          *)
(* (internal/service/file_listing.go, text.go, files.go), under the        *)
(* handlers of internal/handler/files.go and edit.go, with the publication *)
(* of uploads (upload_session.go) as a third writer.                       *)
(*                                                                         *)
(*   list      list -> scan                                                *)
(*   delete    delete -> forget                                            *)
(*   publish   publish -> forget                                           *)
(*   save      save -> draft -> swap                                       *)
(*                                                                         *)
(* A directory scan takes its time under listingMu while files change      *)
(* below it: it reads the names, then asks for each file.  A deletion      *)
(* invalidates the listing with s.mu held, a publication after it gave     *)
(* s.mu up, and an edit holds both mutexes from its temporary file on.     *)
(* Other programs change files whenever they like.                         *)
(*                                                                         *)
(* Every change of a file gives it a new version, so that what a listing   *)
(* shows can be compared with what it should.                              *)
(***************************************************************************)
EXTENDS Integers, FiniteSets

CONSTANTS
  Thread,      \* goroutines serving requests
  Name,        \* names of files of the upload directory
  Temp,        \* names .gothrough-edit-<uuid>.tmp that edits will draw
  NoFile,
  Content,     \* what a file may hold; its SHA-256 stands for it
  Absent,      \* held by a name without a file
  MaxChanges,  \* bound on the changes asked for, by clients and outsiders
  Requests,    \* a subset of {"list", "delete", "publish", "save"}
  Faults       \* a subset of {"scan", "write", "remove", "outside", "crash"},
               \* where "write" includes files that must not be read or written

ASSUME ListingNames == Name \cap Temp = {} /\ NoFile \notin Name \cup Temp
ASSUME ListingContents == Absent \notin Content
ASSUME ListingBound == MaxChanges \in Nat

VARIABLES
  pc,       \* where each goroutine stands
  req,      \* its request and the locals of its handler
  look,     \* what it has seen of the directory, or what it lists
  answer,   \* the kind of response it is about to send
  disk,     \* what each name of the directory holds
  version,  \* how often that changed
  by,       \* who changed it last
  listing,  \* s.listing
  left,     \* changes still to be asked for
  due,      \* history: what a request that begins now has to be shown
  orphans   \* history: temporary files whose edit could not remove them

vars == <<pc, req, look, answer, disk, version, by, listing, left, due, orphans>>
-----------------------------------------------------------------------------
File == Name \cup Temp
Versions == [File -> Nat]
Look == [seen : Versions, shown : SUBSET File, todo : SUBSET File]
Req == [op : {"none", "list", "delete", "publish", "save"}, file : File \cup {NoFile},
        text : Content \cup {Absent}, loaded : Content \cup {Absent},
        temp : Temp \cup {NoFile}, made : Nat, since : Versions]
Pc == {"idle", "list", "scan", "delete", "publish", "forget", "save", "draft", "swap", "done"}
Kind == {"none", "listed", "deleted", "published", "saved", "unchanged", "conflict",
         "notfound", "failed"}

None == [f \in File |-> 0]
NoReq == [op |-> "none", file |-> NoFile, text |-> Absent, loaded |-> Absent,
          temp |-> NoFile, made |-> 0, since |-> None]
NoLook == [seen |-> None, shown |-> {}, todo |-> {}]
NoListing == [seen |-> None, shown |-> {}, fresh |-> FALSE, set |-> FALSE]
Listing == [seen : Versions, shown : SUBSET File, fresh : BOOLEAN, set : BOOLEAN]

\* Files may lie there from the start; there is no listing yet.
Init ==
  /\ pc = [t \in Thread |-> "idle"]
  /\ req = [t \in Thread |-> NoReq]
  /\ look = [t \in Thread |-> NoLook]
  /\ answer = [t \in Thread |-> "none"]
  /\ disk \in {d \in [File -> Content \cup {Absent}] : \A x \in Temp : d[x] = Absent}
  /\ version = None /\ due = None
  /\ by = [f \in File |-> "outside"]
  /\ listing = NoListing
  /\ left = MaxChanges
  /\ orphans = {}
-----------------------------------------------------------------------------
\* s.mu and s.listingMu are free; the mutants take no notice of an edit.
MuFreeOfEdits == \A t \in Thread : pc[t] = "forget" => req[t].op # "delete"
ListingMuFreeOfEdits == \A t \in Thread : pc[t] # "scan"
MuFree == \A t \in Thread :
  pc[t] \notin {"draft", "swap"} /\ (pc[t] = "forget" => req[t].op # "delete")
ListingMuFree == \A t \in Thread : pc[t] \notin {"scan", "swap"}

\* The cached listing is served until it expires.
Cached == listing.set /\ listing.fresh
\* A request that finds nothing cached and nobody scanning must see everything.
Since == IF Cached \/ ~ListingMuFree THEN due ELSE version

Goto(t, p) == pc' = [pc EXCEPT ![t] = p]
Answer(t, kind) == Goto(t, "done") /\ answer' = [answer EXCEPT ![t] = kind]

Files == <<disk, version, by>>
Ghost == <<left, due, orphans>>

\* One file is changed, and its version counted, by someone.
Change(f, c, who) ==
  /\ disk' = [disk EXCEPT ![f] = c]
  /\ version' = [version EXCEPT ![f] = @ + 1]
  /\ by' = [by EXCEPT ![f] = who]

\* s.listing = nil, under listingMu; or without waiting for a scan to end.
InvalidatedAtOnce(t) == listing' = NoListing
Invalidated(t) == ListingMuFree /\ listing' = NoListing
-----------------------------------------------------------------------------
(* Requests *)

\* Temporary names are UUIDs: one that was ever used is never drawn again.  An
\* edit has one to draw; or it writes in the place of the file.
DraftInPlace(t) == {req[t].file}
DraftNames(t) == {x \in Temp : version[x] = 0}
Spare == Cardinality({x \in Temp : version[x] = 0})
           > Cardinality({t \in Thread : pc[t] \in {"save", "draft"}})

\* What a handler refuses before it locks anything is left out: such a request
\* changes nothing.  An editor sends the version of what it loaded at any time
\* before.  A file that is no text is not edited; temporaries are none.
Request(t) ==
  /\ pc[t] = "idle"
  /\ \/ /\ "list" \in Requests
        /\ req' = [req EXCEPT ![t] = [NoReq EXCEPT !.op = "list", !.since = Since]]
        /\ Goto(t, "list") /\ UNCHANGED left
     \/ /\ left > 0 /\ left' = left - 1
        /\ \E f \in Name, text, loaded \in Content, op \in Requests \cap {"publish", "save"} :
             /\ op = "save" => Spare
             /\ req' = [req EXCEPT ![t] = [NoReq EXCEPT !.op = op, !.file = f, !.text = text,
                                             !.loaded = IF op = "save" THEN loaded ELSE Absent]]
             /\ Goto(t, op)
     \/ /\ "delete" \in Requests /\ left > 0 /\ left' = left - 1
        /\ \E f \in File : req' = [req EXCEPT ![t] = [NoReq EXCEPT !.op = "delete", !.file = f]]
        /\ Goto(t, "delete")
  /\ UNCHANGED <<look, answer, Files, listing, due, orphans>>

\* The client learns the result: what it was told of, it must see from now on.
Respond(t) ==
  LET told == answer[t] \in {"deleted", "published", "saved"} IN
  /\ pc[t] = "done"
  /\ due' = [f \in File |-> IF told /\ f = req[t].file /\ req[t].made > due[f]
                            THEN req[t].made ELSE due[f]]
  /\ Goto(t, "idle")
  /\ req' = [req EXCEPT ![t] = NoReq]
  /\ look' = [look EXCEPT ![t] = NoLook]
  /\ answer' = [answer EXCEPT ![t] = "none"]
  /\ UNCHANGED <<Files, listing, left, orphans>>
-----------------------------------------------------------------------------
(* Listing: FileListSnapshot and cachedFiles *)

ServeCached(t) ==
  /\ pc[t] = "list" /\ ListingMuFree /\ Cached
  /\ look' = [look EXCEPT ![t] = [seen |-> listing.seen, shown |-> listing.shown, todo |-> {}]]
  /\ Answer(t, "listed")
  /\ UNCHANGED <<req, Files, listing, Ghost>>

\* WalkDir reads the names.  Of a file that is not there, this is all it sees.
ScanNames(t) ==
  /\ pc[t] = "list" /\ ListingMuFree /\ ~Cached
  /\ LET found == {f \in File : disk[f] # Absent} IN
       look' = [look EXCEPT ![t] = [todo |-> found, shown |-> {},
                  seen |-> [f \in File |-> IF f \in found THEN 0 ELSE version[f]]]]
  /\ Goto(t, "scan")
  /\ UNCHANGED <<req, answer, Files, listing, Ghost>>

\* f.Info of one file after the other; one that is gone is left out.
ScanFile(t) ==
  /\ pc[t] = "scan"
  /\ \E f \in look[t].todo :
       look' = [look EXCEPT ![t].todo = @ \ {f}, ![t].seen[f] = version[f],
                  ![t].shown = IF disk[f] = Absent THEN @ ELSE @ \cup {f}]
  /\ UNCHANGED <<pc, req, answer, Files, listing, Ghost>>

\* An unchanged scan renews the old snapshot, which is the same.
ScanEnd(t) ==
  /\ pc[t] = "scan" /\ look[t].todo = {}
  /\ listing' = [seen |-> look[t].seen, shown |-> look[t].shown, fresh |-> TRUE, set |-> TRUE]
  /\ Answer(t, "listed")
  /\ UNCHANGED <<req, look, Files, Ghost>>

\* A failed scan is reported, and the old listing is not served in its place.
ScanFails(t) ==
  /\ "scan" \in Faults /\ pc[t] = "scan"
  /\ Answer(t, "failed")
  /\ UNCHANGED <<req, look, Files, listing, Ghost>>
-----------------------------------------------------------------------------
(* DeleteFile, and the publication of an upload *)

Delete(t) ==
  /\ pc[t] = "delete" /\ MuFree
  /\ LET f == req[t].file IN
     \/ /\ disk[f] = Absent
        /\ Answer(t, "notfound") /\ UNCHANGED <<req, Files>>
     \/ /\ disk[f] # Absent /\ "remove" \in Faults
        /\ Answer(t, "failed") /\ UNCHANGED <<req, Files>>
     \/ /\ disk[f] # Absent
        /\ Change(f, Absent, "service")
        /\ req' = [req EXCEPT ![t].made = version'[f]]
        /\ Goto(t, "forget") /\ UNCHANGED answer
  /\ UNCHANGED <<look, listing, Ghost>>

\* A link never replaces a file: a name that is taken is exchanged for another.
\* When Name has none left, the drawn name is one that no request here is about.
Publish(t) ==
  /\ pc[t] = "publish" /\ MuFree
  /\ LET free == {f \in Name : disk[f] = Absent} IN
     \/ \E f \in IF req[t].file \in free THEN {req[t].file} ELSE free :
          /\ Change(f, req[t].text, "service")
          /\ req' = [req EXCEPT ![t].file = f, ![t].made = version'[f]]
          /\ Goto(t, "forget") /\ UNCHANGED answer
     \/ /\ free = {}
        /\ req' = [req EXCEPT ![t].file = NoFile]
        /\ Goto(t, "forget") /\ UNCHANGED <<answer, Files>>
     \/ /\ "write" \in Faults
        /\ Answer(t, "failed") /\ UNCHANGED <<req, Files>>
  /\ UNCHANGED <<look, listing, Ghost>>

\* invalidateFiles
Forget(t) ==
  /\ pc[t] = "forget"
  /\ Invalidated(t)
  /\ Answer(t, IF req[t].op = "delete" THEN "deleted" ELSE "published")
  /\ UNCHANGED <<req, look, Files, Ghost>>
-----------------------------------------------------------------------------
(* SaveText *)

\* Under s.mu, the version is compared with that of the file as it is now.  The
\* text stands for what encodeEditedText makes of it with the file's line ends.
Compare(t) ==
  /\ pc[t] = "save" /\ MuFree
  /\ LET now == disk[req[t].file] IN
     \/ now = Absent /\ Answer(t, "notfound")
     \/ now # Absent /\ "write" \in Faults /\ Answer(t, "failed")
     \/ now \notin {Absent, req[t].loaded} /\ Answer(t, "conflict")
     \/ now = req[t].loaded /\ now = req[t].text /\ Answer(t, "unchanged")
     \/ now = req[t].loaded /\ now # req[t].text /\ Goto(t, "draft") /\ UNCHANGED answer
  /\ UNCHANGED <<req, look, Files, listing, Ghost>>

\* The temporary file is made under both mutexes.
Draft(t) ==
  /\ pc[t] = "draft" /\ ListingMuFree
  /\ \/ \E x \in DraftNames(t) :
          /\ Change(x, req[t].text, "service")
          /\ req' = [req EXCEPT ![t].temp = x]
          /\ Goto(t, "swap") /\ UNCHANGED answer
     \/ /\ "write" \in Faults
        /\ Answer(t, "failed") /\ UNCHANGED <<req, Files>>
  /\ UNCHANGED <<look, listing, Ghost>>

\* Rename replaces the file, and s.listing = nil before listingMu is released.
Swap(t) ==
  LET f == req[t].file  x == req[t].temp IN
  /\ pc[t] = "swap"
  /\ disk' = [disk EXCEPT ![f] = req[t].text, ![x] = Absent]
  /\ version' = [version EXCEPT ![f] = @ + 1, ![x] = @ + 1]
  /\ by' = [by EXCEPT ![f] = "service"]
  /\ req' = [req EXCEPT ![t].made = version[f] + 1]
  /\ listing' = NoListing
  /\ Answer(t, "saved")
  /\ UNCHANGED <<look, Ghost>>

\* The file cannot be written, synced or renamed; its removal may fail as well.
SwapFails(t) ==
  /\ "write" \in Faults /\ pc[t] = "swap"
  /\ \/ Change(req[t].temp, Absent, "service") /\ UNCHANGED orphans
     \/ "remove" \in Faults /\ orphans' = orphans \cup {req[t].temp} /\ UNCHANGED Files
  /\ Answer(t, "failed")
  /\ UNCHANGED <<req, look, listing, left, due>>
-----------------------------------------------------------------------------
(* Time, other programs, crashes *)

\* Two seconds have passed since the scan: what happened outside must be seen.
Lapse ==
  /\ Cached /\ ListingMuFree
  /\ listing' = [listing EXCEPT !.fresh = FALSE]
  /\ due' = version
  /\ UNCHANGED <<pc, req, look, answer, Files, left, orphans>>

Outside ==
  /\ "outside" \in Faults /\ left > 0
  /\ \E f \in Name, c \in Content \cup {Absent} : c # disk[f] /\ Change(f, c, "outside")
  /\ left' = left - 1
  /\ UNCHANGED <<pc, req, look, answer, listing, due, orphans>>

\* The next process starts without a listing; nobody removes temporaries of edits.
Crash ==
  /\ "crash" \in Faults
  /\ pc' = [t \in Thread |-> "idle"]
  /\ req' = [t \in Thread |-> NoReq]
  /\ look' = [t \in Thread |-> NoLook]
  /\ answer' = [t \in Thread |-> "none"]
  /\ listing' = NoListing
  /\ orphans' = orphans \cup {req[t].temp : t \in {u \in Thread : pc[u] = "swap"}}
  /\ UNCHANGED <<Files, left, due>>
-----------------------------------------------------------------------------
Next ==
  \/ \E t \in Thread :
       \/ Request(t) \/ Respond(t)
       \/ ServeCached(t) \/ ScanNames(t) \/ ScanFile(t) \/ ScanEnd(t) \/ ScanFails(t)
       \/ Delete(t) \/ Publish(t) \/ Forget(t)
       \/ Compare(t) \/ Draft(t) \/ Swap(t) \/ SwapFails(t)
  \/ Lapse \/ Outside \/ Crash

Spec == Init /\ [][Next]_vars
-----------------------------------------------------------------------------
TypeOK ==
  /\ pc \in [Thread -> Pc]
  /\ req \in [Thread -> Req]
  /\ look \in [Thread -> Look]
  /\ answer \in [Thread -> Kind]
  /\ disk \in [File -> Content \cup {Absent}]
  /\ version \in Versions /\ due \in Versions
  /\ by \in [File -> {"service", "outside"}]
  /\ listing \in Listing
  /\ left \in 0 .. MaxChanges
  /\ orphans \subseteq Temp

Listed(t) == pc[t] = "done" /\ answer[t] = "listed"

\* A listing shows every upload, edit and deletion that a client was told of
\* before the listing was asked for, and what other programs did before the
\* cache last ran out or was cold (file_listing.go:24-63; transfer.md promises
\* both), whatever scan was under way.
ListCurrent == \A t \in Thread : Listed(t) => \A f \in File : look[t].seen[f] >= req[t].since[f]

\* No listing shows the temporary file of an edit, unless the edit was cut off
\* or could not remove it (text.go:126-147).
TempHidden == \A t \in Thread : Listed(t) => look[t].shown \cap Temp \subseteq orphans

\* An edit replaces the very content its editor had loaded: nothing the service
\* wrote or deleted since is lost.  Only another program may come in between
\* the comparison and the rename (text.go:87-147).
NoLostEdit == [][\A t \in Thread :
  pc[t] = "swap" /\ answer'[t] = "saved" =>
    disk[req[t].file] = req[t].loaded \/ by[req[t].file] = "outside"]_vars
=============================================================================
