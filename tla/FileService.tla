---------------------------- MODULE FileService ----------------------------
(***************************************************************************)
(* m2m/fileservice.py: a thread reads a file of Size chunks and writes     *)
(* them to a channel.  Each use of the channel (write, send_control,       *)
(* close) first looks at Channel._closed and then sends, and the WS thread *)
(* may close the channel in between; what is sent once the link is down is *)
(* lost without an error (WSClient.send_bytes).                            *)
(*                                                                         *)
(* The file, the link and the remote user are external: the file may fail  *)
(* to open or to be read, the user may leave and the link may drop.        *)
(***************************************************************************)
EXTENDS FileSize

VARIABLES at,           \* where the thread is
          read,         \* chunks read from the file
          fate,         \* how reading ended: "none", "eof", "error" or "closed"
          closed,       \* Channel._closed
          slot,         \* the service holds a slot of the limiter
          link,         \* the session: "up", or over because the user "left" or
                        \* the link is "down"
          got,          \* chunks the remote user has
          told,         \* the user was told of an error (SERVER_BUSY, which comes
                        \* as data, counts)
          asked         \* request_close reached the server

vars == <<at, read, fate, closed, slot, link, got, told, asked>>

Places == {"none", "opening", "reading", "have", "writing", "sending", "failing",
           "sendingError", "closing", "sendingClose", "decrement", "ended", "refused"}

Init == /\ at = "none" /\ read = 0 /\ fate = "none"
        /\ closed = FALSE /\ slot = FALSE /\ link = "up"
        /\ got = 0 /\ told = FALSE /\ asked = FALSE

Goto(from, to) == at = from /\ at' = to
Arrives == link = "up" /\ ~asked     \* a packet sent now reaches the session

-----------------------------------------------------------------------------
(* Plausible bugs of this code; each must break a property below.          *)
ErrorThenGoesOn ==            \* the loop goes on after a read error
    /\ Goto("sendingError", "reading") /\ told' = (told \/ Arrives)
    /\ UNCHANGED <<read, fate, closed, slot, link, got, asked>>
ReadLast ==                   \* reads Size + 1 chunks
    /\ read <= Size /\ Goto("reading", "have") /\ read' = read + 1
    /\ UNCHANGED <<fate, closed, slot, link, got, told, asked>>

-----------------------------------------------------------------------------
(* FileService.__init__, in the WS thread: a thread with a slot, or the    *)
(* channel is sent SERVER_BUSY and closed.                                 *)
Start == /\ Goto("none", "opening") /\ slot' = TRUE
         /\ UNCHANGED <<read, fate, closed, link, got, told, asked>>
StartFails == /\ Goto("none", "refused") /\ told' = Arrives
              /\ asked' = Arrives
              /\ UNCHANGED <<read, fate, closed, slot, link, got>>

(* _run_service.                                                           *)
Open == /\ Goto("opening", "reading")
        /\ UNCHANGED <<read, fate, closed, slot, link, got, told, asked>>
OpenFails == /\ Goto("opening", "failing") /\ fate' = "error"
             /\ UNCHANGED <<read, closed, slot, link, got, told, asked>>
Read == /\ read < Size /\ Goto("reading", "have") /\ read' = read + 1
        /\ UNCHANGED <<fate, closed, slot, link, got, told, asked>>
ReadEnd == /\ read = Size /\ Goto("reading", "closing") /\ fate' = "eof"
           /\ UNCHANGED <<read, closed, slot, link, got, told, asked>>
ReadError == /\ Goto("reading", "failing") /\ fate' = "error"
             /\ UNCHANGED <<read, closed, slot, link, got, told, asked>>
CheckClosed == /\ Goto("have", IF closed THEN "closing" ELSE "writing")
               /\ fate' = IF closed THEN "closed" ELSE fate
               /\ UNCHANGED <<read, closed, slot, link, got, told, asked>>

(* Channel.write, Channel.send_control and Channel.close.                  *)
Check(from, send, next) == /\ Goto(from, IF closed THEN next ELSE send)
                           /\ UNCHANGED <<read, fate, closed, slot, link, got, told, asked>>
WriteChecks == Check("writing", "sending", "reading")
WriteSends == /\ Goto("sending", "reading")
              /\ got' = IF Arrives THEN read ELSE got
              /\ UNCHANGED <<read, fate, closed, slot, link, told, asked>>
ErrorChecks == Check("failing", "sendingError", "closing")
ErrorSends == /\ Goto("sendingError", "closing") /\ told' = (told \/ Arrives)
              /\ UNCHANGED <<read, fate, closed, slot, link, got, asked>>
CloseChecks == Check("closing", "sendingClose", "decrement")
CloseSends == /\ Goto("sendingClose", "decrement") /\ asked' = (asked \/ Arrives)
              /\ UNCHANGED <<read, fate, closed, slot, link, got, told>>

(* run_service: finally, the limiter is decremented.                       *)
Decrement == /\ Goto("decrement", "ended") /\ slot' = FALSE
             /\ UNCHANGED <<read, fate, closed, link, got, told, asked>>

ThreadStep == \/ Open \/ OpenFails \/ Read \/ ReadEnd \/ ReadError \/ CheckClosed
              \/ WriteChecks \/ WriteSends \/ ErrorChecks \/ ErrorSends
              \/ CloseChecks \/ CloseSends \/ Decrement

-----------------------------------------------------------------------------
(* The session ends for the user; the WS thread hears of it later, as it   *)
(* does of the notify_close that answers request_close.                    *)
SessionEnds(how) == /\ link = "up" /\ ~asked /\ link' = how
                    /\ UNCHANGED <<at, read, fate, closed, slot, got, told, asked>>
OnClose == /\ ~closed /\ (link # "up" \/ asked) /\ closed' = TRUE
           /\ UNCHANGED <<at, read, fate, slot, link, got, told, asked>>

Next == \/ Start \/ StartFails \/ ThreadStep \/ OnClose
        \/ SessionEnds("left") \/ SessionEnds("down")

(* A started thread runs; reading a file ends.                             *)
Fairness == WF_vars(ThreadStep)

Spec == Init /\ [][Next]_vars /\ Fairness

-----------------------------------------------------------------------------
TypeOK == /\ at \in Places /\ read \in 0..Size /\ got \in 0..Size
          /\ fate \in {"none", "eof", "error", "closed"}
          /\ link \in {"up", "left", "down"}
          /\ closed \in BOOLEAN /\ slot \in BOOLEAN /\ told \in BOOLEAN /\ asked \in BOOLEAN

(* A remote user whose channel the agent closed without telling it of an   *)
(* error has the whole file, whatever the reads and the WS thread did.     *)
CloseMeansComplete == asked /\ ~told => got = Size

(* The remote user sees a transfer: in order, complete unless told so.     *)
Outcome == IF told THEN "failed"
           ELSE IF link # "up" THEN "cut" ELSE IF asked THEN "complete" ELSE "open"
User == INSTANCE Transfer WITH written <- Size, ended <- TRUE, trouble <- FALSE,
                               outcome <- Outcome
ImplementsTransfer == User!Spec
=============================================================================
