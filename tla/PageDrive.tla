----------------------------- MODULE PageDrive -----------------------------
(* What one lane of the sidecar does to the page of its WebView between     *)
(* attaching to it and leaving it (AndroidSolvePipeline of                  *)
(* src/android_solver/service.py, with cdp.py and turnstile.py): waiting    *)
(* for a Cloudflare challenge or a clean page, tapping the Turnstile        *)
(* checkbox until a clearance is in the jar, waiting for the single-page    *)
(* application, capturing its client with the debugger, and running the     *)
(* js of an eval or the image batches of a fetch.  Sidecar has the lanes,   *)
(* the routes and the cancellations around it.                              *)
(*                                                                          *)
(* The page is the environment: it loads, challenges, verifies and hydrates *)
(* at any time, between any two calls of the pipeline.  The time limits of  *)
(* the polls are choices.                                                   *)
EXTENDS Naturals

CONSTANTS MaxOps,     \* bound on the operations of the lane
          Batches     \* batches of image addresses in a fetch

ASSUME PageAssumption == MaxOps \in Nat /\ Batches \in Nat \ {0}

VARIABLES
  op,       \* the operation: its kind, and whether it goes through a proxy
  point,    \* where it is
  doc,      \* the top-level document
  jar,      \* cf_clearance of the host: "none", "fresh", or "stale" when
            \* Cloudflare does not accept it for a load any more
  tapped,   \* the last tap: none yet, within _retap_interval_s, or before it
  mine,     \* the verification under way was started by a tap
  blind,    \* the last _in_verification failed, and so returned False
  stashed,  \* the page holds the captured client
  dbg,      \* the debugger of the devtools session
  left,     \* batches of the fetch still to run
  res,      \* how the operation ended
  ops

document == <<doc, mine, stashed>>
driveVars == <<op, point, document, jar, tapped, blind, dbg, left, res, ops>>

Kinds == {"solve", "eval", "recycle", "fetch"}
Off   == [on |-> FALSE, bp |-> FALSE, paused |-> FALSE]
(* A document with the challenges.cloudflare.com frame; a tap is registered *)
(* some time before its banner shows.                                       *)
Challenged == {"challenge", "checkbox", "registered", "verifying"}
CFFrame  == doc \in Challenged
Hydrated == doc = "app"

DriveInit ==
  /\ op = [kind |-> "none", proxied |-> FALSE] /\ point = "idle"
  /\ doc = "blank" /\ mine = FALSE /\ stashed = FALSE /\ jar = "none"
  /\ tapped = "never" /\ blind = FALSE /\ dbg = Off /\ left = 0
  /\ res = "none" /\ ops = 0

(* Page.navigate, or the intent that launches the page. *)
Navigate(to) == doc' = to /\ mine' = FALSE /\ stashed' = FALSE
Goto(p) == point' = p /\ UNCHANGED <<op, tapped, blind, dbg, left, res, ops>>

----------------------------------------------------------------------------
(* The page and Cloudflare.                                                 *)

(* A load without an accepted clearance may be challenged, or blocked with  *)
(* no challenge in it; one with a stale clearance always is.                *)
Loads ==
  /\ doc = "loading"
  /\ doc' \in (IF jar = "fresh" THEN {"clean"} ELSE {"challenge", "block"})
              \cup (IF jar = "none" THEN {"clean"} ELSE {})
Widget ==
  \/ doc = "challenge" /\ doc' = "checkbox" /\ UNCHANGED mine
  \/ doc \in {"challenge", "checkbox"} /\ doc' = "verifying" /\ mine' = FALSE
  \/ doc = "registered" /\ doc' = "verifying" /\ UNCHANGED mine
  \/ doc = "verifying" /\ doc' = (IF jar = "fresh" THEN "clean" ELSE "challenge") /\ mine' = FALSE
PageMoves ==
  /\ \/ Loads /\ UNCHANGED mine
     \/ doc = "clean" /\ doc' = "app" /\ UNCHANGED mine
     \/ Widget
  /\ UNCHANGED <<op, point, jar, stashed, tapped, blind, dbg, left, res, ops>>
Mint ==
  /\ doc = "verifying" /\ jar' = "fresh"
  /\ UNCHANGED <<op, point, document, tapped, blind, dbg, left, res, ops>>
(* The application calls its API: a breakpoint of the debugger stops it. *)
Breaks ==
  /\ Hydrated /\ dbg.bp /\ ~dbg.paused
  /\ dbg' = [dbg EXCEPT !.paused = TRUE]
  /\ UNCHANGED <<op, point, document, jar, tapped, blind, left, res, ops>>
(* Between operations the clearance ages or is revoked. *)
Ages ==
  /\ point = "idle" /\ jar = "fresh" /\ jar' = "stale"
  /\ UNCHANGED <<op, point, document, tapped, blind, dbg, left, res, ops>>
(* The interval after a tap is longer than its banner takes to show. *)
BugSettled == TRUE
Settled == doc # "registered"
Interval ==
  /\ tapped = "recent" /\ Settled /\ tapped' = "before"
  /\ UNCHANGED <<op, point, document, jar, blind, dbg, left, res, ops>>

----------------------------------------------------------------------------
(* The operation begins and ends.                                           *)

BugWipes(k) == FALSE
(* force_stop_and_clear: a solve, and an eval that recycles. *)
Wipes(k) == k \in {"solve", "recycle"}

Begin ==
  /\ point = "idle" /\ ops < MaxOps /\ ops' = ops + 1
  /\ \E k \in Kinds, p \in BOOLEAN :
       /\ k = "fetch" => ~p
       /\ op' = [kind |-> k, proxied |-> p]
       /\ jar' = IF Wipes(k) THEN "none" ELSE jar
       /\ IF k = "solve" \/ Wipes(k) \/ doc = "blank"   \* launch_url
          THEN Navigate("loading") ELSE UNCHANGED document
       /\ point' = CASE p -> "egress" [] k = "fetch" -> "ready"
                  [] k = "solve" /\ ~p -> "frame" [] OTHER -> "warm"
  /\ tapped' = "never" /\ left' = Batches /\ res' = "none"
  /\ UNCHANGED <<blind, dbg>>

(* The session is closed: the page goes on without a debugger. *)
End(r) ==
  /\ point' = "idle" /\ res' = r
  /\ op' = [kind |-> "none", proxied |-> FALSE]
  /\ dbg' = Off /\ tapped' = "never" /\ blind' = FALSE /\ left' = 0
  /\ UNCHANGED <<document, jar, ops>>

(* A call to adb or the devtools fails, a deadline passes, or the operation *)
(* is cancelled; the capture fails closed and is not left this way.         *)
GivesUp == point \notin {"idle", "paused", "resume", "remove", "disable"} /\ End("failed")

(* The egress is read in the page by an eval if it can be, else by going to *)
(* the echo service; a solve goes to the challenge again afterwards.        *)
InPage == point = "egress" /\ op.kind # "solve" /\ Goto("warm") /\ UNCHANGED <<document, jar>>
Echo   == point = "egress" /\ Navigate("echo") /\ Goto("echoed") /\ UNCHANGED jar
Echoed ==
  /\ point = "echoed" /\ Navigate("loading") /\ UNCHANGED jar
  /\ Goto(IF op.kind = "solve" THEN "frame" ELSE "clear")

----------------------------------------------------------------------------
(* _await_cf_challenge_or_clean, on the path of a solve and of an eval.     *)

(* The frame is looked for first; a clean page ends the wait; at the time   *)
(* limit a solve goes on to tap, an eval looks once more.  A probe that     *)
(* fails sees nothing.                                                      *)
Frame ==
  /\ point = "frame"       \* a frame, a clearance in the jar, or the limit
  /\ Goto("cookie") /\ UNCHANGED <<document, jar>>
AwaitClear ==
  /\ point = "clear"
  /\ \/ CFFrame /\ Goto("cookie")
     \/ Hydrated /\ Goto("hydrate")
     \/ Goto("hydrate")
  /\ UNCHANGED <<document, jar>>

(* _tap_until_cleared: the clearance first; nothing while it verifies; then *)
(* a tap, unless the last one is recent.                                    *)
Cookie ==
  /\ point = "cookie" /\ jar # "none"
  /\ IF op.kind = "solve" THEN End("200")
     ELSE Goto("hydrate") /\ UNCHANGED <<document, jar>>
NoCookie == point = "cookie" /\ Goto("probe") /\ jar = "none" /\ UNCHANGED <<document, jar>>
CookieErr == point = "cookie" /\ Goto("probe") /\ jar # "none" /\ UNCHANGED <<document, jar>>
InVerification == doc = "verifying"
Probe ==
  /\ point = "probe"
  /\ \E err \in BOOLEAN :
       /\ blind' = err
       /\ point' = IF (InVerification /\ ~err) \/ tapped = "recent" THEN "cookie" ELSE "tap"
  /\ UNCHANGED <<op, document, jar, tapped, dbg, left, res, ops>>
(* A tap on the checkbox registers; one during a verification resets the    *)
(* widget; any other does nothing, and a checkbox may not be found.         *)
Tap ==
  /\ point = "tap" /\ CFFrame
  /\ CASE doc = "checkbox" -> doc' = "registered" /\ mine' = TRUE
       [] doc \in {"registered", "verifying"} -> doc' = "challenge" /\ mine' = FALSE
       [] OTHER -> UNCHANGED <<doc, mine>>
  /\ point' = "cookie" /\ tapped' = "recent"
  /\ UNCHANGED <<op, stashed, jar, blind, dbg, left, res, ops>>
NotFound == point = "tap" /\ Goto("cookie") /\ UNCHANGED <<document, jar>>

----------------------------------------------------------------------------
(* An eval: the warm page, hydration, the client of the application, js.    *)

Warm ==
  /\ point = "warm"
  /\ \/ Hydrated /\ Goto("hydrate") /\ UNCHANGED document
     \/ Goto("clear") /\ Navigate("loading")     \* any other page, or a failed probe
  /\ UNCHANGED jar
(* Runs anyway when the limit passes. *)
Hydrate == point = "hydrate" /\ Goto("client") /\ UNCHANGED <<document, jar>>

HasClient == point = "client" /\ Goto("js") /\ UNCHANGED <<document, jar>>
(* Debugger.enable, the breakpoint, and a soft change of route. *)
Capture ==
  /\ point = "client" /\ Hydrated /\ ~stashed
  /\ dbg' = [dbg EXCEPT !.on = TRUE, !.bp = TRUE]
  /\ point' = "paused"
  /\ UNCHANGED <<op, document, jar, tapped, blind, left, res, ops>>
(* Some frame of the stopped call has the client; or there was no stop in   *)
(* time, or a call failed, or the operation was cancelled.                  *)
Captured ==
  /\ point = "paused"
  /\ stashed' \in {FALSE, Hydrated /\ dbg.paused}
  /\ Goto("resume") /\ UNCHANGED <<doc, mine, jar>>
(* The finally: three calls, each after the other, and the exception of each*)
(* is suppressed: the session it then has lost takes the debugger with it.  *)
Resume ==
  /\ point = "resume"
  /\ dbg' \in {[dbg EXCEPT !.paused = FALSE], Off} /\ point' = "remove"
  /\ UNCHANGED <<op, document, jar, tapped, blind, left, res, ops>>
Remove ==
  /\ point = "remove"
  /\ dbg' \in {[dbg EXCEPT !.bp = FALSE], Off} /\ point' = "disable"
  /\ UNCHANGED <<op, document, jar, tapped, blind, left, res, ops>>
BugDisabled == [dbg EXCEPT !.on = FALSE]
(* Disabling the debugger lets a stopped page go on; so does its loss. *)
Disabled == Off
Disable ==
  /\ point = "disable"
  /\ dbg' = Disabled /\ point' = "js"
  /\ UNCHANGED <<op, document, jar, tapped, blind, left, res, ops>>
Js == point = "js" /\ ~dbg.paused /\ \E r \in {"200", "failed"} : (r = "200" => Hydrated) /\ End(r)

----------------------------------------------------------------------------
(* A fetch: the page of the source is loaded, then the batches.  A          *)
(* challenge at that address counts as loaded.                              *)
Ready ==
  /\ point = "ready"
  /\ \/ doc \in Challenged \cup {"block", "clean", "app"} /\ Goto("batch") /\ UNCHANGED document
     \/ doc # "loading" /\ Navigate("loading") /\ Goto("ready")
  /\ UNCHANGED jar
Batch ==
  /\ point = "batch"
  /\ IF left = 0 THEN End("200")
     ELSE left' = left - 1 /\ UNCHANGED <<op, point, document, jar, tapped, blind, dbg, res, ops>>

Drive ==
  \/ Begin \/ GivesUp \/ InPage \/ Echo \/ Echoed
  \/ Frame \/ AwaitClear \/ Cookie \/ NoCookie \/ CookieErr \/ Probe \/ Tap \/ NotFound
  \/ Warm \/ Hydrate \/ HasClient \/ Capture \/ Captured \/ Resume \/ Remove \/ Disable \/ Js
  \/ Ready \/ Batch
DriveNext == Drive \/ PageMoves \/ Mint \/ Breaks \/ Ages \/ Interval

DriveSpec == DriveInit /\ [][DriveNext]_driveVars

----------------------------------------------------------------------------
(* "Once a tap registers it is NEVER disrupted by a follow-up tap"          *)
(* (_tap_until_cleared), unless the probe for the verification failed.      *)
TapNotDisrupted ==
  [][point = "tap" /\ tapped' = "recent" /\ tapped # "recent" => ~mine \/ blind]_driveVars

(* "A page left paused would hang every later eval" (_ensure_api_client):   *)
(* neither the js of this eval nor a later operation finds the page         *)
(* stopped, also when the application calls again between the calls of      *)
(* the finally.                                                             *)
PageNotPaused == point \in {"js", "idle", "warm"} => ~dbg.paused

(* A solve brings a clearance that its own run of the challenge minted,     *)
(* never one that an earlier operation left in the jar (_solve).            *)
SolveMintsItsOwn ==
  [][op.kind = "solve" /\ res' = "200" => jar = "fresh"]_driveVars

(* What an operation may take for granted of the page, and may not do to it. *)
DriveIsSound == [][PageNotPaused']_driveVars /\ TapNotDisrupted /\ SolveMintsItsOwn

=============================================================================
