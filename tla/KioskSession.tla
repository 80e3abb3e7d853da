---------------------------- MODULE KioskSession ----------------------------
(***************************************************************************)
(* A kiosk and the sessions of its players: KioskProvider with its queue   *)
(* of ends that did not reach the server (offlineQueue), its stored        *)
(* snapshot (sessionPersist) and its handling of refused tokens            *)
(* (authSession), against the answers of the backend's kiosk endpoints.    *)
(* Its connection is KioskSocket's: here, a frame arrives or is lost.      *)
(*                                                                         *)
(* A flow of the provider is a task with a program counter; it gives way   *)
(* at every request and wherever it waits for the native side, and what it *)
(* does in between is one step.  A request is sent, served and answered in *)
(* separate steps, so its answer may be old when it is used and may be     *)
(* lost after the server acted.                                            *)
(***************************************************************************)
EXTENDS Naturals, FiniteSets

CONSTANTS
    Players,
    Sessions,     \* session rows the server can create
    Workers,      \* reconciliations and replays under way at a time
    Stale,        \* a bearer that is refused, the player's or the station's
    None,
    Budget        \* bound: sign-ins, and what goes wrong, in all

ASSUME PlayerAssumption ==
  None \notin Players \cup Sessions /\ Stale \notin Players \cup {None}
ASSUME BudgetAssumption == Budget \in Nat

VARIABLES
    sess,      \* the server's rows: whose, and open here, open away, closed
    events,    \* session.ended frames the station has not handled
    net,       \* the server can be reached
    phase, shown, online, reauth,      \* React state
    token, expired,                    \* the player's token in memory
    provisioned,                       \* the station has a token of its own
    vault, snapshot, queue,            \* what survives a restart
    flushDue,                          \* online has just become true
    closing, signing, job,             \* tasks
    left,                              \* ended here, and the player has left
    spent                              \* of the budget

serverVars == <<sess, events>>
viewVars   == <<phase, shown, reauth>>
tokenVars  == <<token, expired, vault, provisioned>>
vars == <<serverVars, net, viewVars, online, tokenVars, snapshot,
          queue, flushDue, closing, signing, job, left, spent>>

Phases == {"loading", "login", "session", "conflict", "register"}
Bearers == Players \cup {None, Stale}
Answers == [kind: {"ok", "failed", "missing", "expired", "forbidden", "conflict"},
            sid: Sessions \cup {None}]
Answer(kind, s) == [kind |-> kind, sid |-> s]
NoAnswer == Answer("failed", None)

Rows == [owner: Players \cup {None}, at: {"none", "here", "away", "closed"}]
Intents == [sid: Sessions, player: Players \cup {None}]

Closings == [pc: {"idle", "patch", "patched", "native", "tail"},
             sid: Sessions \cup {None}, player: Players \cup {None},
             bearer: Bearers, ans: Answers]
Signings == [pc: {"idle", "auth", "authed", "kept", "start", "started",
                  "get", "got"},
             who: Players \cup {None}, again: BOOLEAN, bearer: Bearers,
             active: Sessions \cup {None}, ans: Answers]
Jobs == [pc: {"idle", "asked", "answered", "replaying", "sent", "replied",
              "settle"},
         kind: {"reconcile", "restore", "flush"},
         bearer: Bearers, ans: Answers, got: Sessions \cup {None},
         todo: SUBSET Sessions, sid: Sessions \cup {None}]

IdleClosing == [pc |-> "idle", sid |-> None, player |-> None, bearer |-> None,
                ans |-> NoAnswer]
IdleSigning == [pc |-> "idle", who |-> None, again |-> FALSE, bearer |-> None,
                active |-> None, ans |-> NoAnswer]
IdleJob == [pc |-> "idle", kind |-> "flush", bearer |-> None, ans |-> NoAnswer,
            got |-> None, todo |-> {}, sid |-> None]

(***************************************************************************)
(* The server's answers.                                                   *)
(***************************************************************************)
IsOpen(s) == sess[s].at \in {"here", "away"}
OpenOf(p) == {s \in Sessions : IsOpen(s) /\ sess[s].owner = p}
LatestOf(p) == IF OpenOf(p) = {} THEN None ELSE CHOOSE s \in OpenOf(p) : TRUE
Unused == {s \in Sessions : sess[s].at = "none"}

Refusal(bearer) == Answer(IF bearer = None THEN "missing" ELSE "expired", None)

(* an end of a closed session is answered like one that closed it *)
EndAnswer(bearer, s) ==
  IF bearer \notin Players THEN Refusal(bearer)
  ELSE IF sess[s].owner # bearer THEN Answer("forbidden", None)
  ELSE Answer("ok", s)

Ends(bearer, s) == EndAnswer(bearer, s).kind = "ok" /\ IsOpen(s)

Close(s) ==
  /\ sess' = [sess EXCEPT ![s].at = "closed"]
  /\ events' = IF sess[s].at = "here" THEN events \cup {s} ELSE events

(* faulty: only a session of this station is closed                        *)
ServeEndHere(bearer, s) ==
  IF Ends(bearer, s) /\ sess[s].at = "here" THEN Close(s)
  ELSE UNCHANGED serverVars

(* the session row closes and the frame for its station is published *)
ServeEnd(bearer, s) ==
  IF Ends(bearer, s) THEN Close(s) ELSE UNCHANGED serverVars

GetAnswer(bearer) ==
  IF bearer \in Players THEN Answer("ok", LatestOf(bearer)) ELSE Refusal(bearer)

LoginAnswer(p) ==
  LET s == LatestOf(p)
  IN IF s # None /\ sess[s].at = "away" THEN Answer("conflict", None)
     ELSE Answer("ok", s)

(* no balance left to play on is an error like any other *)
StartAnswer(bearer, new) ==
  IF bearer \notin Players THEN Refusal(bearer)
  ELSE LET s == LatestOf(bearer)
       IN IF s = None
          THEN IF new = None THEN NoAnswer ELSE Answer("ok", new)
          ELSE IF sess[s].at = "away" THEN Answer("conflict", None)
          ELSE Answer("ok", s)

Opens(bearer, new) ==
  new # None /\ bearer \in Players /\ LatestOf(bearer) = None

ServeStart(bearer, new) ==
  /\ sess' = IF Opens(bearer, new)
             THEN [sess EXCEPT ![new] = [owner |-> bearer, at |-> "here"]]
             ELSE sess
  /\ UNCHANGED events

(***************************************************************************)
(* What flows share.                                                       *)
(***************************************************************************)
Spend == spent < Budget /\ spent' = spent + 1

(* the station's own token is looked at before the player's *)
Bearer == IF expired \/ ~provisioned THEN Stale ELSE token

(* online' is given: the effect on it replays what is queued *)
SetOnline(value) ==
  /\ online' = value
  /\ flushDue' = (flushDue \/ (value /\ ~online))

Keeps(bearer, player) ==
  /\ token' = player /\ expired' = FALSE /\ vault' = player
  /\ UNCHANGED provisioned

NoPlayer == token' = None /\ expired' = FALSE /\ vault' = None
Forgets == NoPlayer /\ UNCHANGED provisioned

(* one intent for a session; the order in which they were queued, and are  *)
(* replayed, is left open                                                  *)
Dequeued(s) == {i \in queue : i.sid # s}
Enqueued(s, player) == Dequeued(s) \cup {[sid |-> s, player |-> player]}

(* of the player who is signed in, or of nobody *)
IntentsFor(player) == {i \in queue : i.player \in {None, player}}
ToReplay == {i.sid : i \in IntentsFor(token)}

(* a teardown that finds one under way does nothing, and one that begins   *)
(* asks for no password any more                                           *)
TearDown ==
  closing' = IF closing.pc = "idle"
             THEN [IdleClosing EXCEPT !.pc = "native"]
             ELSE closing
Dismisses == reauth' = (reauth /\ closing.pc # "idle")

(* resolveAuthExpiredAction, when a request was refused *)
ExpiredAction(kind) ==
  IF kind = "missing" THEN IF token # None THEN "player" ELSE "none"
  ELSE IF token # None /\ phase \in {"session", "conflict"} THEN "player"
  ELSE IF phase \in {"register", "loading"} THEN "none"
  ELSE "reset"

Refused(ans) == ans.kind \in {"missing", "expired"}
Resets(ans) == Refused(ans) /\ ExpiredAction(ans.kind) = "reset"
LogsOut(ans) == Refused(ans) /\ ExpiredAction(ans.kind) = "player"
OnShow == phase = "session" /\ shown # None

(* a full reset forgets every token, the station's own among them *)
ResetTokens(ans) ==
  IF Resets(ans) THEN NoPlayer /\ provisioned' = FALSE ELSE UNCHANGED tokenVars

ResetScreen(ans) ==
  IF Resets(ans) THEN phase' = "register" /\ shown' = None /\ snapshot' = None
  ELSE UNCHANGED <<phase, shown, snapshot>>

(* a session on show asks for the password, anything else is torn down *)
LogOut(ans) ==
  IF ~LogsOut(ans) THEN UNCHANGED <<reauth, closing>>
  ELSE IF OnShow THEN reauth' = TRUE /\ UNCHANGED closing
  ELSE TearDown /\ Dismisses

(* handleAuthExpired, before the answer goes to whoever asked: one refusal *)
(* at a time, and a reset is over by then                                  *)
OnUnauthorized(ans) == ResetScreen(ans) /\ LogOut(ans)
Unauthorized(ans) == OnUnauthorized(ans) /\ ResetTokens(ans)

(* faulty: an answer never replaces what is on show                        *)
ShowFirst(s) ==
  shown' = (IF shown = None THEN s ELSE shown) /\ snapshot' = shown'

(* the snapshot is stored whenever a session is set *)
Show(s) == shown' = s /\ snapshot' = IF s = None THEN snapshot ELSE s

(***************************************************************************)
(* endSession and the teardown: the player's button, the countdown at      *)
(* zero, maintenance, and the offline grace all end in it.                 *)
(***************************************************************************)
EndSession ==
  /\ phase = "session" /\ closing.pc = "idle"
  /\ closing' = IF shown = None
                THEN [IdleClosing EXCEPT !.pc = "native"]
                ELSE [IdleClosing EXCEPT !.pc = "patch", !.sid = shown,
                                         !.player = token, !.bearer = Bearer]
  /\ reauth' = (reauth /\ shown # None)
  /\ UNCHANGED <<serverVars, net, phase, shown, online, tokenVars,
                 snapshot, queue, flushDue, signing, job, left, spent>>

(* faulty: the grace waits for the server to be reachable                  *)
GraceWhenReachable == ~online /\ net /\ EndSession

(* SessionPage ends the session when the station was offline for too long *)
GraceElapses == ~online /\ EndSession

EndIsServed ==
  /\ net /\ closing.pc = "patch"
  /\ ServeEnd(closing.bearer, closing.sid)
  /\ closing' = [closing EXCEPT !.pc = "patched", !.bearer = None,
                                !.ans = EndAnswer(closing.bearer, closing.sid)]
  /\ UNCHANGED <<net, viewVars, online, tokenVars, snapshot, queue,
                 flushDue, signing, job, left, spent>>

EndIsLost ==
  /\ ~net /\ closing.pc \in {"patch", "patched"}
  /\ closing' = [closing EXCEPT !.pc = "patched", !.bearer = None,
                                !.ans = NoAnswer]
  /\ UNCHANGED <<serverVars, net, viewVars, online, tokenVars,
                 snapshot, queue, flushDue, signing, job, left, spent>>

(* faulty: kept only when the station knows that it is offline             *)
QueueIfOffline(s, player, ans) ==
  IF ans.kind = "ok" \/ Refused(ans) \/ online THEN queue
  ELSE Enqueued(s, player)

(* what the queue becomes: kept for later unless the token was refused *)
QueueAfterEnd(s, player, ans) ==
  IF ans.kind = "ok" \/ Refused(ans) THEN queue ELSE Enqueued(s, player)

(* a logout that the refusal asks for finds this teardown under way *)
HandleEnd ==
  /\ closing.pc = "patched"
  /\ ResetScreen(closing.ans) /\ ResetTokens(closing.ans)
  /\ queue' = QueueAfterEnd(closing.sid, closing.player, closing.ans)
  /\ IF closing.ans.kind = "ok" THEN SetOnline(TRUE)
     ELSE UNCHANGED <<online, flushDue>>
  /\ closing' = [IdleClosing EXCEPT !.pc = "native",
                    !.sid = IF Refused(closing.ans) THEN None ELSE closing.sid]
  /\ reauth' = FALSE
  /\ UNCHANGED <<serverVars, net, signing, job, left, spent>>

(* the native side has closed the games: back to the sign-in screen *)
Leave ==
  /\ closing.pc = "native"
  /\ phase' = "login" /\ shown' = None /\ reauth' = FALSE
  /\ Forgets
  /\ left' = IF closing.sid = None THEN left ELSE left \cup {closing.sid}
  /\ closing' = [closing EXCEPT !.pc = "tail"]
  /\ UNCHANGED <<serverVars, net, online, snapshot, queue, flushDue,
                 signing, job, spent>>

(* the rest of it, once the token is off the disk *)
FinishLeave ==
  /\ closing.pc = "tail"
  /\ snapshot' = None
  /\ closing' = IdleClosing
  /\ UNCHANGED <<serverVars, net, viewVars, online, tokenVars, queue, flushDue,
                 signing, job, left, spent>>

(***************************************************************************)
(* playerLogin, and playerReauth when the token expired in a session.      *)
(***************************************************************************)
(* a login carries the station's token alone *)
Station == IF provisioned THEN None ELSE Stale

BeginLogin(p) ==
  /\ phase = "login" /\ signing.pc = "idle" /\ online
  /\ closing.pc # "native"
  /\ Spend
  /\ signing' = [IdleSigning EXCEPT !.pc = "auth", !.who = p, !.bearer = Station]
  /\ UNCHANGED <<serverVars, net, viewVars, online, tokenVars,
                 snapshot, queue, flushDue, closing, job, left>>

BeginReauth ==
  /\ phase = "session" /\ reauth /\ token # None /\ signing.pc = "idle"
  /\ signing' = [IdleSigning EXCEPT !.pc = "auth", !.who = token, !.again = TRUE,
                                    !.bearer = Station]
  /\ UNCHANGED <<serverVars, net, viewVars, online, tokenVars,
                 snapshot, queue, flushDue, closing, job, left, spent>>

LoginIsServed ==
  /\ net /\ signing.pc = "auth"
  /\ signing' = [signing EXCEPT !.pc = "authed", !.bearer = None,
                    !.ans = IF signing.bearer = Stale THEN Refusal(Stale)
                            ELSE LoginAnswer(signing.who)]
  /\ UNCHANGED <<serverVars, net, viewVars, online, tokenVars,
                 snapshot, queue, flushDue, closing, job, left, spent>>

SigningIsLost ==
  /\ ~net /\ signing.pc \in {"auth", "start", "started", "get"}
  /\ signing' = [signing EXCEPT !.ans = NoAnswer, !.bearer = None,
                   !.pc = CASE signing.pc = "auth" -> "authed"
                            [] signing.pc = "get" -> "got"
                            [] OTHER -> "started"]
  /\ UNCHANGED <<serverVars, net, viewVars, online, tokenVars,
                 snapshot, queue, flushDue, closing, job, left, spent>>

(* no token has been kept yet, but one of before may be in memory *)
LoginFails ==
  /\ signing.pc = "authed" /\ signing.ans.kind \in {"failed", "expired"}
  /\ OnUnauthorized(signing.ans)
  /\ IF signing.again \/ Resets(signing.ans) THEN ResetTokens(signing.ans)
     ELSE Forgets
  /\ signing' = IdleSigning
  /\ UNCHANGED <<serverVars, net, online, queue, flushDue, job, left, spent>>

Conflicts ==
  /\ signing.pc \in {"authed", "started"} /\ signing.ans.kind = "conflict"
  /\ IF signing.again THEN UNCHANGED phase ELSE phase' = "conflict"
  /\ signing' = IdleSigning
  /\ UNCHANGED <<serverVars, net, shown, reauth, online, tokenVars,
                 snapshot, queue, flushDue, closing, job, left, spent>>

KeepToken ==
  /\ signing.pc = "authed" /\ signing.ans.kind = "ok"
  /\ Keeps(signing.who, signing.who)
  /\ signing' = [signing EXCEPT !.pc = "kept", !.active = signing.ans.sid,
                                !.ans = NoAnswer]
  /\ UNCHANGED <<serverVars, net, viewVars, online, snapshot, queue,
                 flushDue, closing, job, left, spent>>

(* the server named an open session: it is resumed *)
Resume ==
  /\ signing.pc = "kept" /\ ~signing.again /\ signing.active # None
  /\ Show(signing.active) /\ phase' = "session"
  /\ signing' = IdleSigning
  /\ UNCHANGED <<serverVars, net, reauth, online, tokenVars, queue,
                 flushDue, closing, job, left, spent>>

SendStart ==
  /\ signing.pc = "kept" /\ ~signing.again /\ signing.active = None
  /\ signing' = [signing EXCEPT !.pc = "start", !.bearer = Bearer]
  /\ UNCHANGED <<serverVars, net, viewVars, online, tokenVars,
                 snapshot, queue, flushDue, closing, job, left, spent>>

StartIsServed ==
  /\ net /\ signing.pc = "start"
  /\ LET new == IF Unused = {} THEN None ELSE CHOOSE s \in Unused : TRUE
     IN /\ ServeStart(signing.bearer, new)
        /\ signing' = [signing EXCEPT !.pc = "started", !.bearer = None,
                                      !.ans = StartAnswer(signing.bearer, new)]
  /\ UNCHANGED <<net, viewVars, online, tokenVars, snapshot, queue,
                 flushDue, closing, job, left, spent>>

Started ==
  /\ signing.pc = "started" /\ signing.ans.kind = "ok"
  /\ Show(signing.ans.sid) /\ phase' = "session"
  /\ signing' = IdleSigning
  /\ UNCHANGED <<serverVars, net, reauth, online, tokenVars, queue,
                 flushDue, closing, job, left, spent>>

StartFails ==
  /\ signing.pc = "started"
  /\ signing.ans.kind \in {"failed", "missing", "expired"}
  /\ OnUnauthorized(signing.ans)
  /\ IF Resets(signing.ans) THEN ResetTokens(signing.ans) ELSE Forgets
  /\ signing' = IdleSigning
  /\ UNCHANGED <<serverVars, net, online, queue, flushDue, job, left, spent>>

SendReauthGet ==
  /\ signing.pc = "kept" /\ signing.again
  /\ signing' = [signing EXCEPT !.pc = "get", !.bearer = Bearer]
  /\ UNCHANGED <<serverVars, net, viewVars, online, tokenVars,
                 snapshot, queue, flushDue, closing, job, left, spent>>

ReauthGetIsServed ==
  /\ net /\ signing.pc = "get"
  /\ signing' = [signing EXCEPT !.pc = "got", !.bearer = None,
                                !.ans = GetAnswer(signing.bearer)]
  /\ UNCHANGED <<serverVars, net, viewVars, online, tokenVars,
                 snapshot, queue, flushDue, closing, job, left, spent>>

Reauthenticated ==
  /\ signing.pc = "got" /\ signing.ans.kind = "ok"
  /\ LET s == IF signing.ans.sid # None THEN signing.ans.sid ELSE signing.active
     IN IF s = None THEN UNCHANGED <<shown, snapshot>> ELSE Show(s)
  /\ reauth' = FALSE
  /\ SetOnline(TRUE)
  /\ signing' = IdleSigning
  /\ UNCHANGED <<serverVars, net, phase, tokenVars, queue, closing, job, left,
                 spent>>

ReauthFails ==
  /\ signing.pc = "got" /\ signing.ans.kind # "ok"
  /\ Unauthorized(signing.ans)
  /\ signing' = IdleSigning
  /\ UNCHANGED <<serverVars, net, online, queue, flushDue, job, left, spent>>

(* leaving the screen that says the player has a session elsewhere *)
DismissConflict ==
  /\ phase = "conflict"
  /\ Forgets
  /\ snapshot' = None /\ phase' = "login"
  /\ UNCHANGED <<serverVars, net, shown, reauth, online, queue, flushDue,
                 closing, signing, job, left, spent>>

(***************************************************************************)
(* reconcileSessionOnce, the restore at boot and the replay of queued ends *)
(* when the station comes back online: they share flushEndIntents.         *)
(***************************************************************************)
JobUnchanged ==
  UNCHANGED <<serverVars, net, viewVars, online, tokenVars, snapshot,
              queue, flushDue, closing, signing, left, spent>>

SetJob(w, j) == job' = [job EXCEPT ![w] = j]

(* by a timer, by the window's focus or by the player *)
Reconcile(w) ==
  /\ job[w].pc = "idle" /\ phase = "session" /\ token # None
  /\ SetJob(w, [IdleJob EXCEPT !.pc = "asked", !.kind = "reconcile",
                               !.bearer = Bearer])
  /\ JobUnchanged

FlushWhenOnline(w) ==
  /\ job[w].pc = "idle" /\ flushDue
  /\ flushDue' = FALSE
  /\ IF ToReplay = {} THEN UNCHANGED job
     ELSE SetJob(w, [IdleJob EXCEPT !.pc = "replaying", !.todo = ToReplay])
  /\ UNCHANGED <<serverVars, net, viewVars, online, tokenVars,
                 snapshot, queue, closing, signing, left, spent>>

GetIsServed(w) ==
  /\ net /\ job[w].pc = "asked"
  /\ SetJob(w, [job[w] EXCEPT !.pc = "answered", !.bearer = None,
                              !.ans = GetAnswer(job[w].bearer)])
  /\ JobUnchanged

JobIsLost(w) ==
  /\ ~net /\ job[w].pc \in {"asked", "sent", "replied"}
  /\ SetJob(w, [job[w] EXCEPT !.ans = NoAnswer, !.bearer = None,
         !.pc = IF job[w].pc = "asked" THEN "answered" ELSE "replied"])
  /\ JobUnchanged

(* what is queued goes out before the answer is used *)
GetSucceeds(w) ==
  /\ job[w].pc = "answered" /\ job[w].ans.kind = "ok" /\ ToReplay # {}
  /\ SetOnline(TRUE)
  /\ SetJob(w, [job[w] EXCEPT !.pc = "replaying", !.got = job[w].ans.sid,
                              !.ans = NoAnswer, !.todo = ToReplay])
  /\ UNCHANGED <<serverVars, net, viewVars, tokenVars, snapshot,
                 queue, closing, signing, left, spent>>

(* the probe that follows says whether the station is offline *)
GetFails(w) ==
  /\ job[w].pc = "answered" /\ job[w].ans.kind = "failed"
  /\ job[w].kind = "reconcile"
  /\ SetOnline(net)
  /\ SetJob(w, IdleJob)
  /\ UNCHANGED <<serverVars, net, viewVars, tokenVars, snapshot,
                 queue, closing, signing, left, spent>>

(* a reconciliation that is refused tears the session down whatever else   *)
(* the refusal does: reset or asked, the kiosk returns to the sign-in      *)
GetIsRefused(w) ==
  /\ job[w].pc = "answered" /\ Refused(job[w].ans)
  /\ job[w].kind = "reconcile"
  /\ ResetScreen(job[w].ans) /\ ResetTokens(job[w].ans)
  /\ TearDown
  /\ reauth' = (closing.pc # "idle" /\ (reauth \/ (LogsOut(job[w].ans) /\ OnShow)))
  /\ SetJob(w, IdleJob)
  /\ UNCHANGED <<serverVars, net, online, queue, flushDue, signing, left,
                 spent>>

SendReplay(w) ==
  /\ job[w].pc = "replaying"
  /\ \E s \in job[w].todo :
       SetJob(w, [job[w] EXCEPT !.pc = "sent", !.bearer = Bearer, !.sid = s])
  /\ JobUnchanged

ReplayIsServed(w) ==
  /\ net /\ job[w].pc = "sent"
  /\ ServeEnd(job[w].bearer, job[w].sid)
  /\ SetJob(w, [job[w] EXCEPT !.pc = "replied", !.bearer = None,
                              !.ans = EndAnswer(job[w].bearer, job[w].sid)])
  /\ UNCHANGED <<net, viewVars, online, tokenVars, snapshot, queue,
                 flushDue, closing, signing, left, spent>>

ReplaySucceeds(w) ==
  /\ job[w].pc = "replied" /\ job[w].ans.kind = "ok"
  /\ queue' = Dequeued(job[w].sid)
  /\ SetJob(w, [job[w] EXCEPT !.pc = "replaying", !.sid = None,
                              !.todo = job[w].todo \ {job[w].sid},
                              !.ans = NoAnswer])
  /\ UNCHANGED <<serverVars, net, viewVars, online, tokenVars,
                 snapshot, flushDue, closing, signing, left, spent>>

(* the first intent that cannot be replayed stops the rest *)
ReplayFails(w) ==
  /\ job[w].pc = "replied" /\ job[w].ans.kind # "ok"
  /\ Unauthorized(job[w].ans)
  /\ SetJob(w, [job[w] EXCEPT !.pc = "replaying", !.todo = {},
                              !.sid = None, !.ans = NoAnswer])
  /\ UNCHANGED <<serverVars, net, online, queue, flushDue, signing, left,
                 spent>>

(* the replay is over, or there was nothing to replay *)
Replayed(w) == job[w].pc = "replaying" /\ job[w].todo = {}
NothingToReplay(w) ==
  job[w].pc = "answered" /\ job[w].ans.kind = "ok" /\ ToReplay = {}
Ready(w) == Replayed(w) \/ NothingToReplay(w)
(* faulty: an answer without a session is taken for no news                *)
GotOrShown(w) ==
  LET got == IF Replayed(w) THEN job[w].got ELSE job[w].ans.sid
  IN IF got = None THEN shown ELSE got

GotOf(w) == IF Replayed(w) THEN job[w].got ELSE job[w].ans.sid
OnlineIfAnswered(w) ==
  IF Replayed(w) THEN UNCHANGED <<online, flushDue>> ELSE SetOnline(TRUE)

FlushEnds(w) ==
  /\ Replayed(w) /\ job[w].kind = "flush"
  /\ SetJob(w, IdleJob)
  /\ JobUnchanged

(* no open session: it was ended elsewhere; otherwise the answer is shown, *)
(* whatever is on show                                                     *)
Settle(w) ==
  /\ Ready(w) /\ job[w].kind = "reconcile"
  /\ IF GotOf(w) = None
     THEN TearDown /\ Dismisses /\ UNCHANGED <<shown, snapshot>>
     ELSE Show(GotOf(w)) /\ UNCHANGED <<closing, reauth>>
  /\ OnlineIfAnswered(w)
  /\ SetJob(w, IdleJob)
  /\ UNCHANGED <<serverVars, net, phase, tokenVars, queue, signing, left, spent>>

(***************************************************************************)
(* A restart, and the boot that follows it.                                *)
(***************************************************************************)
Restart ==
  /\ Spend
  /\ phase' = "loading" /\ shown' = None /\ reauth' = FALSE
  /\ online' = TRUE /\ flushDue' = TRUE
  /\ token' = None
  /\ closing' = IdleClosing /\ signing' = IdleSigning
  /\ job' = [w \in Workers |-> IdleJob]
  /\ UNCHANGED <<serverVars, net, expired, vault, provisioned, snapshot, queue,
                 left>>

Idle == \A w \in Workers : job[w].kind # "restore"

BootWithToken(w) ==
  /\ phase = "loading" /\ provisioned /\ vault # None
  /\ job[w].pc = "idle" /\ Idle
  /\ token' = vault
  /\ SetOnline(net)
  /\ SetJob(w, [IdleJob EXCEPT !.pc = "asked", !.kind = "restore",
                               !.bearer = IF expired THEN Stale ELSE vault])
  /\ UNCHANGED <<serverVars, net, viewVars, expired, vault, provisioned, snapshot,
                 queue, closing, signing, left, spent>>

(* a station without a token of its own does not get as far as the probe *)
Boot ==
  /\ phase = "loading" /\ (vault = None \/ ~provisioned)
  /\ token' = vault
  /\ IF provisioned THEN phase' = "login" /\ SetOnline(net)
     ELSE phase' = "register" /\ UNCHANGED <<online, flushDue>>
  /\ UNCHANGED <<serverVars, net, shown, reauth, expired, vault, provisioned,
                 snapshot, queue, closing, signing, job, left, spent>>

(* restored from the server, or without it from the snapshot *)
Restored(w, s) ==
  /\ Show(s) /\ phase' = "session"
  /\ SetJob(w, IdleJob)
  /\ UNCHANGED <<serverVars, net, reauth, tokenVars, queue, closing, signing,
                 left, spent>>

Restore(w) ==
  /\ job[w].kind = "restore" /\ Ready(w) /\ GotOf(w) # None
  /\ Restored(w, GotOf(w))
  /\ OnlineIfAnswered(w)

RestoreOffline(w) ==
  /\ job[w].kind = "restore" /\ job[w].pc = "answered"
  /\ job[w].ans.kind = "failed" /\ snapshot # None
  /\ Restored(w, snapshot)
  /\ SetOnline(FALSE)

(* no session, or a refused token: both are forgotten; an answer that does *)
(* not come leaves the token where it is.  The station is not connected.   *)
RestoreNothing(w) ==
  /\ job[w].kind = "restore"
  /\ \/ /\ Ready(w) /\ GotOf(w) = None
        /\ OnlineIfAnswered(w)
        /\ Forgets /\ snapshot' = None
     \/ /\ job[w].pc = "answered" /\ Refused(job[w].ans)
        /\ Forgets /\ snapshot' = None /\ UNCHANGED <<online, flushDue>>
     \/ /\ job[w].pc = "answered" /\ job[w].ans.kind = "failed" /\ snapshot = None
        /\ UNCHANGED <<tokenVars, snapshot, online, flushDue>>
  /\ phase' = "login"
  /\ SetJob(w, IdleJob)
  /\ UNCHANGED <<serverVars, net, shown, reauth, queue, closing, signing, left,
                 spent>>

(***************************************************************************)
(* What reaches the kiosk from outside.                                    *)
(***************************************************************************)
(* a frame for another session than the one on show is ignored; a reset    *)
(* has closed the connection                                               *)
ReceiveEnded(s) ==
  /\ s \in events /\ provisioned
  /\ events' = events \ {s}
  /\ IF shown \in {None, s}
     THEN TearDown /\ Dismisses
     ELSE UNCHANGED <<closing, reauth>>
  /\ UNCHANGED <<sess, net, phase, shown, online, tokenVars, snapshot,
                 queue, flushDue, signing, job, left, spent>>

(* what was published while nobody listened is not replayed *)
LoseEnded(s) ==
  /\ s \in events
  /\ events' = events \ {s}
  /\ UNCHANGED <<sess, net, viewVars, online, tokenVars, snapshot,
                 queue, flushDue, closing, signing, job, left, spent>>

(* the health probe of every minute and the browser's own events *)
Probe ==
  /\ online # net
  /\ SetOnline(net)
  /\ UNCHANGED <<serverVars, net, viewVars, tokenVars, snapshot,
                 queue, closing, signing, job, left, spent>>

(* staff, or a balance that ran out *)
EndElsewhere(s) ==
  /\ IsOpen(s)
  /\ Close(s)
  /\ UNCHANGED <<net, viewVars, online, tokenVars, snapshot, queue,
                 flushDue, closing, signing, job, left, spent>>

(* the player sits down at another station *)
StartElsewhere(p) ==
  /\ OpenOf(p) = {} /\ Unused # {}
  /\ Spend
  /\ LET new == CHOOSE s \in Unused : TRUE
     IN sess' = [sess EXCEPT ![new] = [owner |-> p, at |-> "away"]]
  /\ UNCHANGED <<events, net, viewVars, online, tokenVars, snapshot,
                 queue, flushDue, closing, signing, job, left>>

Expire ==
  /\ phase = "session" /\ token # None /\ ~expired
  /\ Spend
  /\ expired' = TRUE
  /\ UNCHANGED <<serverVars, net, viewVars, online, token, vault, provisioned,
                 snapshot, queue, flushDue, closing, signing, job, left>>

Outage ==
  /\ net
  /\ Spend
  /\ net' = FALSE
  /\ UNCHANGED <<serverVars, viewVars, online, tokenVars, snapshot,
                 queue, flushDue, closing, signing, job, left>>

Recovery ==
  /\ ~net
  /\ net' = TRUE
  /\ UNCHANGED <<serverVars, viewVars, online, tokenVars, snapshot,
                 queue, flushDue, closing, signing, job, left, spent>>

Init ==
  /\ sess = [s \in Sessions |-> [owner |-> None, at |-> "none"]]
  /\ events = {} /\ net = TRUE
  /\ phase = "loading" /\ shown = None /\ online = TRUE /\ reauth = FALSE
  /\ token = None /\ expired = FALSE
  /\ provisioned = TRUE /\ vault = None /\ snapshot = None /\ queue = {}
  /\ flushDue = TRUE
  /\ closing = IdleClosing /\ signing = IdleSigning
  /\ job = [w \in Workers |-> IdleJob]
  /\ left = {} /\ spent = 0

ClosingStep == EndIsServed \/ EndIsLost \/ HandleEnd \/ Leave \/ FinishLeave

SigningStep ==
  \/ LoginIsServed \/ SigningIsLost \/ LoginFails \/ Conflicts \/ KeepToken
  \/ Resume \/ SendStart \/ StartIsServed \/ Started \/ StartFails
  \/ SendReauthGet \/ ReauthGetIsServed \/ Reauthenticated \/ ReauthFails

JobStep(w) ==
  \/ GetIsServed(w) \/ JobIsLost(w) \/ GetSucceeds(w) \/ GetFails(w)
  \/ GetIsRefused(w) \/ SendReplay(w) \/ ReplayIsServed(w) \/ ReplaySucceeds(w)
  \/ ReplayFails(w) \/ FlushEnds(w) \/ Settle(w) \/ Restore(w)
  \/ RestoreOffline(w) \/ RestoreNothing(w)

BeginJob(w) == Reconcile(w) \/ FlushWhenOnline(w) \/ BootWithToken(w)

PlayerStep ==
  \/ EndSession \/ BeginReauth \/ DismissConflict
  \/ \E p \in Players : BeginLogin(p)

Outside ==
  \/ \E s \in Sessions : ReceiveEnded(s) \/ LoseEnded(s) \/ EndElsewhere(s)
  \/ \E p \in Players : StartElsewhere(p)
  \/ Probe \/ Expire \/ Outage \/ Recovery \/ Restart

Next ==
  \/ PlayerStep \/ ClosingStep \/ SigningStep \/ Boot \/ Outside
  \/ \E w \in Workers : BeginJob(w) \/ JobStep(w)

Spec == Init /\ [][Next]_vars

(* Callbacks and timers run: a request is answered or fails within its     *)
(* timeout, the native side takes 15 s at most, the reconciliation and the *)
(* probe are on timers, the offline grace ends.  Nobody has to come back   *)
(* online, sign in or end a session.                                       *)
Fairness ==
  /\ WF_vars(ClosingStep) /\ WF_vars(SigningStep) /\ WF_vars(Boot)
  /\ WF_vars(Probe) /\ WF_vars(GraceElapses)
  /\ \A w \in Workers : WF_vars(JobStep(w)) /\ WF_vars(BeginJob(w))

FairSpec == Spec /\ Fairness

(***************************************************************************)
(* Properties                                                              *)
(***************************************************************************)
TypeOK ==
  /\ sess \in [Sessions -> Rows]
  /\ events \subseteq Sessions
  /\ {net, online, reauth, expired, provisioned, flushDue} \subseteq BOOLEAN
  /\ phase \in Phases
  /\ {shown, snapshot} \subseteq Sessions \cup {None}
  /\ {token, vault} \subseteq Players \cup {None}
  /\ queue \subseteq Intents
  /\ closing \in Closings /\ signing \in Signings /\ job \in [Workers -> Jobs]
  /\ left \subseteq Sessions /\ spent \in 0..Budget

Queued(s) == \E i \in queue : i.sid = s

(* offlineQueue: no end a player asked for at the kiosk is forgotten.      *)
(* Once the sign-in screen is back, the session is closed, or its end is   *)
(* still queued, whatever was lost, retried or restarted in between; only  *)
(* an end refused for its token is given up.                               *)
EndIsKept ==
  \A s \in left : sess[s].at = "closed" \/ Queued(s)

(* An end that was answered is done: when it is taken off the queue, or     *)
(* never put there, the session it was for is closed, whatever the server  *)
(* did between the request and its answer.                                 *)
AnsweredIsClosed ==
  /\ closing.pc = "patched" /\ closing.ans.kind = "ok"
       => sess[closing.sid].at = "closed"
  /\ \A w \in Workers : job[w].pc = "replied" /\ job[w].ans.kind = "ok"
       => sess[job[w].sid].at = "closed"

(* The sign-in screen waits for the end: what is about to be left is       *)
(* closed or queued, and a row that nobody opened has no owner.            *)
LeavingIsSettled ==
  closing.pc = "native" /\ closing.sid # None
    => sess[closing.sid].at = "closed" \/ Queued(closing.sid)
RowsAreOwned == \A s \in Sessions : sess[s].at = "none" => sess[s].owner = None
Asked ==
  /\ closing.pc \in {"patch", "patched"} => closing.sid # None
  /\ \A w \in Workers : job[w].pc \in {"sent", "replied"} => job[w].sid # None

IInv ==
  /\ TypeOK /\ EndIsKept /\ AnsweredIsClosed /\ LeavingIsSettled
  /\ RowsAreOwned /\ Asked

Shows(s) == phase = "session" /\ shown = s

(* The reconciliation finds out that a session is over: a signed-in kiosk  *)
(* does not go on showing it, even if the server cannot be reached and no  *)
(* frame arrives.                                                          *)
ClosedIsLeft ==
  \A s \in Sessions :
     Shows(s) /\ sess[s].at = "closed" /\ token # None
       ~> ~Shows(s) \/ token = None

(* An answer that was asked for by the player before may put his session   *)
(* on show; the next reconciliation corrects it.                           *)
Foreign == phase = "session" /\ token # None /\ shown # None
             /\ sess[shown].owner # token
ForeignIsCorrected == Foreign ~> ~Foreign

(* SessionPage: a session goes on offline for the grace period only.       *)
OfflineIsBounded ==
  (phase = "session" /\ ~online) ~> (phase # "session" \/ online)
=============================================================================
