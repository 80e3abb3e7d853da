------------------------- MODULE KioskSession_proof -------------------------
(***************************************************************************)
(* Proof that no end is forgotten (EndIsKept), for any number of players,  *)
(* sessions, flows and faults.                                             *)
(*                                                                         *)
(* What makes it inductive: a session that is closed stays closed          *)
(* (ClosedStays), an end on its way to the queue or off it has been        *)
(* answered (AnsweredIsClosed) or queued (LeavingIsSettled).  The          *)
(* invariant is cut by the state it speaks of, so that an action only has  *)
(* to show the parts it disturbs.                                          *)
(***************************************************************************)
EXTENDS KioskSession, TLAPS

USE DEF serverVars, viewVars, tokenVars

MaybeSession == Sessions \cup {None}
MaybePlayer == Players \cup {None}

Kept(s) == sess[s].at = "closed" \/ Queued(s)

ServerSound == sess \in [Sessions -> Rows] /\ RowsAreOwned
QueueSound == queue \subseteq Intents /\ left \subseteq Sessions /\ EndIsKept
ViewSound ==
  /\ shown \in MaybeSession /\ snapshot \in MaybeSession
  /\ token \in MaybePlayer /\ vault \in MaybePlayer
ClosingSound ==
  /\ closing \in Closings
  /\ closing.pc \in {"patch", "patched"} => closing.sid # None
  /\ closing.pc = "patched" /\ closing.ans.kind = "ok"
       => sess[closing.sid].at = "closed"
  /\ closing.pc = "native" /\ closing.sid # None => Kept(closing.sid)
SigningSound == signing \in Signings
JobSound ==
  /\ job \in [Workers -> Jobs]
  /\ \A w \in Workers :
       /\ job[w].pc \in {"sent", "replied"} => job[w].sid # None
       /\ job[w].pc = "replied" /\ job[w].ans.kind = "ok"
            => sess[job[w].sid].at = "closed"

KInv ==
  /\ ServerSound /\ QueueSound /\ ViewSound
  /\ ClosingSound /\ SigningSound /\ JobSound

(* what no step undoes *)
ClosedStays == \A s \in Sessions : sess[s].at = "closed" => sess'[s].at = "closed"
KeptStays == \A s \in Sessions : Kept(s) => Kept(s)'

-----------------------------------------------------------------------------
(* The constants and the values that stand for nothing *)

LEMMA NoAnswerTyped == NoAnswer \in Answers /\ NoAnswer.kind = "failed"
  BY DEF NoAnswer, Answer, Answers

LEMMA AnswerTyped ==
  ASSUME NEW k \in {"ok", "failed", "missing", "expired", "forbidden", "conflict"},
         NEW s \in MaybeSession
  PROVE  Answer(k, s) \in Answers /\ Answer(k, s).kind = k /\ Answer(k, s).sid = s
  BY DEF Answer, Answers, MaybeSession

LEMMA AnswerParts ==
  ASSUME NEW a \in Answers
  PROVE  a.sid \in MaybeSession
  BY DEF Answers, MaybeSession

LEMMA NobodyBears == None \in Bearers /\ Stale \in Bearers
                       /\ Players \subseteq Bearers /\ MaybePlayer \subseteq Bearers
  BY DEF Bearers, MaybePlayer

LEMMA BearerTyped ==
  ASSUME ViewSound
  PROVE  Bearer \in Bearers
  BY DEF ViewSound, Bearer, Bearers, MaybePlayer

LEMMA IdleTyped ==
  /\ IdleClosing \in Closings
  /\ IdleSigning \in Signings
  /\ IdleJob \in Jobs /\ IdleJob.pc = "idle" /\ IdleJob.sid = None
  <1>1. IdleClosing \in Closings
    BY NoAnswerTyped, NobodyBears DEF IdleClosing, Closings
  <1>2. IdleSigning \in Signings
    BY NoAnswerTyped, NobodyBears DEF IdleSigning, Signings
  <1>3. IdleJob \in Jobs /\ IdleJob.pc = "idle" /\ IdleJob.sid = None
    BY NoAnswerTyped, NobodyBears DEF IdleJob, Jobs
  <1> QED
    BY <1>1, <1>2, <1>3

-----------------------------------------------------------------------------
(* The server's answers *)

LEMMA LatestTyped ==
  ASSUME NEW p
  PROVE  LatestOf(p) \in MaybeSession
  BY DEF LatestOf, OpenOf, MaybeSession

LEMMA RefusalTyped ==
  ASSUME NEW b
  PROVE  Refusal(b) \in Answers /\ Refusal(b).kind # "ok"
  BY AnswerTyped DEF Refusal, MaybeSession

LEMMA GetTyped ==
  ASSUME NEW b
  PROVE  GetAnswer(b) \in Answers
  BY RefusalTyped, LatestTyped, AnswerTyped DEF GetAnswer

LEMMA LoginTyped ==
  ASSUME NEW p
  PROVE  LoginAnswer(p) \in Answers
  <1>1. None \in MaybeSession
    BY DEF MaybeSession
  <1> QED
    BY <1>1, LatestTyped, AnswerTyped DEF LoginAnswer

LEMMA StartTyped ==
  ASSUME NEW b, NEW new \in MaybeSession
  PROVE  StartAnswer(b, new) \in Answers
  <1>1. None \in MaybeSession
    BY DEF MaybeSession
  <1> QED
    BY <1>1, LatestTyped, AnswerTyped, NoAnswerTyped, RefusalTyped DEF StartAnswer

LEMMA EndTyped ==
  ASSUME NEW b, NEW s \in Sessions
  PROVE  EndAnswer(b, s) \in Answers
  <1>1. None \in MaybeSession /\ s \in MaybeSession
    BY DEF MaybeSession
  <1> QED
    BY <1>1, AnswerTyped, RefusalTyped DEF EndAnswer

-----------------------------------------------------------------------------
(* What the server does to the rows *)

LEMMA RowsStill ==
  ASSUME ServerSound, UNCHANGED sess
  PROVE  ServerSound' /\ ClosedStays
  BY DEF ServerSound, RowsAreOwned, ClosedStays

(* a row that closes keeps its owner *)
LEMMA CloseSound ==
  ASSUME ServerSound, NEW s \in Sessions, IsOpen(s), Close(s)
  PROVE  ServerSound' /\ ClosedStays /\ sess'[s].at = "closed"
  <1>1. sess' = [sess EXCEPT ![s] = [sess[s] EXCEPT !.at = "closed"]]
    BY DEF Close
  <1> DEFINE row == [sess[s] EXCEPT !.at = "closed"]
  <1>2. row \in Rows /\ row.at = "closed"
    BY DEF ServerSound, Rows
  <1> HIDE DEF row
  <1>3. sess' \in [Sessions -> Rows] /\ sess'[s] = row
    BY <1>1, <1>2 DEF ServerSound, row
  <1>4. \A t \in Sessions : t # s => sess'[t] = sess[t]
    BY <1>1 DEF ServerSound
  <1> QED
    BY <1>2, <1>3, <1>4 DEF ServerSound, RowsAreOwned, ClosedStays

(* an end that is answered with success has closed the session, now or     *)
(* before                                                                  *)
LEMMA EndServed ==
  ASSUME ServerSound, NEW b, NEW s \in Sessions, ServeEnd(b, s)
  PROVE  /\ ServerSound' /\ ClosedStays
         /\ EndAnswer(b, s).kind = "ok" => sess'[s].at = "closed"
  <1>1. CASE Ends(b, s)
    BY <1>1, CloseSound DEF ServeEnd, Ends
  <1>2. CASE ~Ends(b, s)
    <2>1. UNCHANGED sess
      BY <1>2 DEF ServeEnd
    <2>2. ASSUME EndAnswer(b, s).kind = "ok"
          PROVE  sess[s].at = "closed"
      <3>1. b \in Players
        BY <2>2, RefusalTyped DEF EndAnswer
      <3>2. sess[s].owner = b
        <4>1. None \in MaybeSession
          BY DEF MaybeSession
        <4>2. Answer("forbidden", None).kind # "ok"
          BY <4>1, AnswerTyped
        <4> QED
          BY <2>2, <3>1, <4>2 DEF EndAnswer
      <3>3. b # None
        BY <3>1, PlayerAssumption
      <3>4. sess[s].at # "none"
        BY <3>2, <3>3 DEF ServerSound, RowsAreOwned
      <3>5. ~IsOpen(s)
        BY <1>2, <2>2 DEF Ends
      <3>6. sess[s].at \in {"none", "here", "away", "closed"}
        BY DEF ServerSound, Rows
      <3> QED
        BY <3>4, <3>5, <3>6 DEF IsOpen
    <2> QED
      BY <2>1, <2>2, RowsStill
  <1> QED
    BY <1>1, <1>2

(* a row is opened once *)
LEMMA OpenSound ==
  ASSUME ServerSound, NEW p \in Players, NEW new \in Unused,
         NEW at \in {"here", "away"},
         sess' = [sess EXCEPT ![new] = [owner |-> p, at |-> at]]
  PROVE  ServerSound' /\ ClosedStays
  <1> DEFINE row == [owner |-> p, at |-> at]
  <1>1. row \in Rows /\ row.at \in {"here", "away"}
    BY DEF Rows
  <1>2. new \in Sessions /\ sess[new].at = "none"
    BY DEF Unused
  <1> HIDE DEF row
  <1>3. sess' = [sess EXCEPT ![new] = row]
    BY DEF row
  <1>4. sess' \in [Sessions -> Rows] /\ sess'[new] = row
          /\ \A t \in Sessions : t # new => sess'[t] = sess[t]
    BY <1>1, <1>2, <1>3 DEF ServerSound
  <1> QED
    BY <1>1, <1>2, <1>4 DEF ServerSound, RowsAreOwned, ClosedStays

LEMMA StartServed ==
  ASSUME ServerSound, NEW b, NEW new \in Unused \cup {None}, ServeStart(b, new)
  PROVE  ServerSound' /\ ClosedStays
  <1>1. CASE Opens(b, new)
    <2>1. b \in Players /\ new \in Unused
      BY <1>1 DEF Opens
    <2> QED
      BY <1>1, <2>1, OpenSound DEF ServeStart
  <1>2. CASE ~Opens(b, new)
    BY <1>2, RowsStill DEF ServeStart
  <1> QED
    BY <1>1, <1>2

-----------------------------------------------------------------------------
(* What the other parts keep while nothing closed is reopened *)

LEMMA QueueStill ==
  ASSUME ClosedStays, UNCHANGED queue
  PROVE  KeptStays
  BY DEF ClosedStays, KeptStays, Kept, Queued

LEMMA LeftStill ==
  ASSUME QueueSound, KeptStays, UNCHANGED left, queue' \subseteq Intents
  PROVE  QueueSound'
  BY DEF QueueSound, KeptStays, Kept, EndIsKept

LEMMA ClosingStill ==
  ASSUME ClosingSound, ClosedStays, KeptStays, UNCHANGED closing
  PROVE  ClosingSound'
  <1>1. closing.sid # None => closing.sid \in Sessions
    BY DEF ClosingSound, Closings
  <1> QED
    BY <1>1 DEF ClosingSound, ClosedStays, KeptStays

LEMMA TornDown ==
  ASSUME ClosingSound, ClosedStays, KeptStays, TearDown
  PROVE  ClosingSound'
  <1>1. CASE closing.pc = "idle"
    <2>1. closing' = [IdleClosing EXCEPT !.pc = "native"]
      BY <1>1 DEF TearDown
    <2>2. closing' \in Closings /\ closing'.pc = "native" /\ closing'.sid = None
      BY <2>1, IdleTyped DEF Closings, IdleClosing
    <2> QED
      BY <2>2 DEF ClosingSound
  <1>2. CASE closing.pc # "idle"
    BY <1>2, ClosingStill DEF TearDown
  <1> QED
    BY <1>1, <1>2

LEMMA JobStill ==
  ASSUME JobSound, ClosedStays, UNCHANGED job
  PROVE  JobSound'
  <1>1. \A w \in Workers : job[w].sid # None => job[w].sid \in Sessions
    BY DEF JobSound, Jobs
  <1> QED
    BY <1>1 DEF JobSound, ClosedStays

LEMMA JobSet ==
  ASSUME JobSound, ClosedStays, NEW w \in Workers, NEW j \in Jobs, SetJob(w, j),
         j.pc \in {"sent", "replied"} => j.sid # None,
         j.pc = "replied" /\ j.ans.kind = "ok" => sess'[j.sid].at = "closed"
  PROVE  JobSound'
  <1>1. \A v \in Workers : job[v].sid # None => job[v].sid \in Sessions
    BY DEF JobSound, Jobs
  <1>2. job' \in [Workers -> Jobs] /\ job'[w] = j
          /\ \A v \in Workers : v # w => job'[v] = job[v]
    BY DEF JobSound, SetJob
  <1> QED
    BY <1>1, <1>2 DEF JobSound, ClosedStays

(* a step that only moves flows and what is on show                        *)
LEMMA QuietStep ==
  ASSUME KInv, UNCHANGED <<sess, queue, left>>
  PROVE  /\ ServerSound' /\ QueueSound' /\ ClosedStays /\ KeptStays
         /\ UNCHANGED closing => ClosingSound'
         /\ UNCHANGED job => JobSound'
         /\ UNCHANGED signing => SigningSound'
         /\ UNCHANGED <<shown, snapshot, token, vault>> => ViewSound'
  <1>1. ServerSound' /\ ClosedStays
    BY RowsStill DEF KInv
  <1>2. KeptStays
    BY <1>1, QueueStill
  <1>3. QueueSound'
    BY <1>2, LeftStill DEF KInv, QueueSound
  <1>4. UNCHANGED closing => ClosingSound'
    BY <1>1, <1>2, ClosingStill DEF KInv
  <1>5. UNCHANGED job => JobSound'
    BY <1>1, JobStill DEF KInv
  <1>6. UNCHANGED signing => SigningSound'
    BY DEF KInv, SigningSound
  <1>7. UNCHANGED <<shown, snapshot, token, vault>> => ViewSound'
    BY DEF KInv, ViewSound
  <1> QED
    BY <1>1, <1>2, <1>3, <1>4, <1>5, <1>6, <1>7

LEMMA JobQuiet ==
  ASSUME KInv, UNCHANGED <<sess, queue, left, signing>>, ViewSound',
         UNCHANGED closing \/ TearDown,
         NEW w \in Workers, NEW j \in Jobs, SetJob(w, j),
         j.pc \in {"sent", "replied"} => j.sid # None,
         j.pc = "replied" => j.ans = NoAnswer
  PROVE  KInv'
  <1>1. ServerSound' /\ QueueSound' /\ ClosedStays /\ KeptStays /\ SigningSound'
    BY QuietStep
  <1>2. ClosingSound'
    BY <1>1, ClosingStill, TornDown DEF KInv
  <1>3. JobSound'
    BY <1>1, JobSet, NoAnswerTyped DEF KInv
  <1> QED
    BY <1>1, <1>2, <1>3 DEF KInv

LEMMA SigningQuiet ==
  ASSUME KInv, UNCHANGED <<sess, queue, left, job>>, SigningSound', ViewSound',
         UNCHANGED closing \/ TearDown
  PROVE  KInv'
  <1>1. ServerSound' /\ QueueSound' /\ ClosedStays /\ KeptStays /\ JobSound'
    BY QuietStep
  <1>2. ClosingSound'
    BY <1>1, ClosingStill, TornDown DEF KInv
  <1> QED
    BY <1>1, <1>2 DEF KInv

LEMMA ClosingQuiet ==
  ASSUME KInv, UNCHANGED <<sess, queue, left, signing, job>>, ViewSound',
         ClosingSound'
  PROVE  KInv'
  BY QuietStep DEF KInv

-----------------------------------------------------------------------------
(* What a refused request may do to the rest *)

LEMMA ScreenSound ==
  ASSUME KInv, NEW ans, ResetScreen(ans)
  PROVE  shown' \in MaybeSession /\ snapshot' \in MaybeSession
  BY DEF ResetScreen, KInv, ViewSound, MaybeSession

LEMMA TokensSound ==
  ASSUME KInv, NEW ans, ResetTokens(ans) \/ Forgets
  PROVE  token' \in MaybePlayer /\ vault' \in MaybePlayer
  BY DEF ResetTokens, Forgets, NoPlayer, KInv, ViewSound, MaybePlayer

LEMMA RefusalView ==
  ASSUME KInv, NEW ans, OnUnauthorized(ans), ResetTokens(ans) \/ Forgets
  PROVE  ViewSound' /\ (UNCHANGED closing \/ TearDown)
  <1>1. ResetScreen(ans) /\ (UNCHANGED closing \/ TearDown)
    BY DEF OnUnauthorized, LogOut
  <1> QED
    BY <1>1, ScreenSound, TokensSound DEF ViewSound

-----------------------------------------------------------------------------
(* The end of a session *)

LEMMA EndSessionKeeps ==
  ASSUME KInv, EndSession
  PROVE  KInv'
  <1>1. UNCHANGED <<sess, queue, left, signing, job, shown, snapshot, token, vault>>
    BY DEF EndSession
  <1>2. ViewSound'
    BY <1>1 DEF KInv, ViewSound
  <1>3. CASE shown = None
    <2>1. closing' = [IdleClosing EXCEPT !.pc = "native"]
      BY <1>3 DEF EndSession
    <2>2. closing' \in Closings /\ closing'.pc = "native" /\ closing'.sid = None
      BY <2>1, IdleTyped DEF Closings, IdleClosing
    <2>3. ClosingSound'
      BY <2>2 DEF ClosingSound
    <2> QED
      BY <1>1, <1>2, <2>3, ClosingQuiet
  <1>4. CASE shown # None
    <2>1. closing' = [IdleClosing EXCEPT !.pc = "patch", !.sid = shown,
                                         !.player = token, !.bearer = Bearer]
      BY <1>4 DEF EndSession
    <2>2. shown \in Sessions /\ Bearer \in Bearers /\ token \in Players \cup {None}
      BY <1>4, BearerTyped DEF KInv, ViewSound, MaybeSession, MaybePlayer
    <2>3. closing' \in Closings /\ closing'.pc = "patch" /\ closing'.sid = shown
      BY <2>1, <2>2, IdleTyped DEF Closings, IdleClosing
    <2>4. ClosingSound'
      BY <1>4, <2>3 DEF ClosingSound
    <2> QED
      BY <1>1, <1>2, <2>4, ClosingQuiet
  <1> QED
    BY <1>3, <1>4

LEMMA EndIsServedKeeps ==
  ASSUME KInv, EndIsServed
  PROVE  KInv'
  <1>1. closing.sid \in Sessions /\ closing.bearer \in Bearers
    BY DEF EndIsServed, KInv, ClosingSound, Closings
  <1>2. /\ ServerSound' /\ ClosedStays
        /\ EndAnswer(closing.bearer, closing.sid).kind = "ok"
             => sess'[closing.sid].at = "closed"
    BY <1>1, EndServed DEF EndIsServed, KInv
  <1>3. KeptStays /\ QueueSound'
    BY <1>2, QueueStill, LeftStill DEF EndIsServed, KInv, QueueSound
  <1>4. ClosingSound'
    <2> DEFINE a == EndAnswer(closing.bearer, closing.sid)
    <2>1. a \in Answers
      BY <1>1, EndTyped
    <2>2. closing' = [closing EXCEPT !.pc = "patched", !.bearer = None, !.ans = a]
      BY DEF EndIsServed
    <2> HIDE DEF a
    <2>3. /\ closing' \in Closings /\ closing'.pc = "patched"
          /\ closing'.sid = closing.sid /\ closing'.ans = a
      BY <2>1, <2>2, NobodyBears DEF KInv, ClosingSound, Closings
    <2>4. closing.sid # None
      BY DEF EndIsServed, KInv, ClosingSound
    <2> QED
      BY <1>2, <2>3, <2>4 DEF ClosingSound, a
  <1>5. JobSound' /\ SigningSound' /\ ViewSound'
    BY <1>2, JobStill DEF EndIsServed, KInv, SigningSound, ViewSound
  <1> QED
    BY <1>2, <1>3, <1>4, <1>5 DEF KInv

LEMMA EndIsLostKeeps ==
  ASSUME KInv, EndIsLost
  PROVE  KInv'
  <1>1. closing' = [closing EXCEPT !.pc = "patched", !.bearer = None,
                                   !.ans = NoAnswer]
    BY DEF EndIsLost
  <1>2. /\ closing' \in Closings /\ closing'.pc = "patched"
        /\ closing'.sid = closing.sid /\ closing'.ans = NoAnswer
    BY <1>1, NoAnswerTyped, NobodyBears DEF KInv, ClosingSound, Closings
  <1>3. closing.sid # None
    BY DEF EndIsLost, KInv, ClosingSound
  <1>4. ClosingSound'
    BY <1>2, <1>3, NoAnswerTyped DEF ClosingSound
  <1>5. UNCHANGED <<sess, queue, left, signing, job>> /\ ViewSound'
    BY DEF EndIsLost, KInv, ViewSound
  <1> QED
    BY <1>4, <1>5, ClosingQuiet

(* queued unless it was answered, or its token refused                     *)
LEMMA HandleEndOf ==
  ASSUME KInv, HandleEnd, NEW s \in Sessions, s = closing.sid
  PROVE  KInv'
  <1>1. closing.player \in Players \cup {None}
    BY DEF KInv, ClosingSound, Closings
  <1>2. ServerSound' /\ ClosedStays /\ UNCHANGED sess
    BY RowsStill DEF HandleEnd, KInv
  <1>3. queue' = queue \/ queue' = Enqueued(s, closing.player)
    BY DEF HandleEnd, QueueAfterEnd
  <1>4. [sid |-> s, player |-> closing.player] \in Intents
    BY <1>1 DEF Intents
  <1>5. queue' \subseteq Intents
    BY <1>3, <1>4 DEF Enqueued, Dequeued, KInv, QueueSound
  <1>6. ASSUME queue' = Enqueued(s, closing.player)
        PROVE  (\A t \in Sessions : Queued(t) => Queued(t)') /\ Queued(s)'
    <2>1. \A i \in queue : i.sid # s => i \in queue'
      BY <1>6 DEF Enqueued, Dequeued
    <2>2. [sid |-> s, player |-> closing.player] \in queue'
      BY <1>6 DEF Enqueued
    <2>3. Queued(s)'
      BY <2>2 DEF Queued
    <2>4. ASSUME NEW t \in Sessions, Queued(t)
          PROVE  Queued(t)'
      BY <2>1, <2>3, <2>4 DEF Queued
    <2> QED
      BY <2>3, <2>4
  <1>7. KeptStays
    <2>1. CASE queue' = queue
      BY <1>2, <2>1, QueueStill
    <2>2. CASE queue' = Enqueued(s, closing.player)
      BY <1>2, <1>6, <2>2 DEF KeptStays, Kept
    <2> QED
      BY <1>3, <2>1, <2>2
  <1>8. QueueSound'
    BY <1>5, <1>7, LeftStill DEF HandleEnd, KInv
  <1>9. ClosingSound'
    <2> DEFINE kept == IF Refused(closing.ans) THEN None ELSE s
    <2>1. closing' = [IdleClosing EXCEPT !.pc = "native", !.sid = kept]
      BY DEF HandleEnd
    <2>2. kept \in Sessions \cup {None}
      OBVIOUS
    <2>3. kept # None => kept = s /\ ~Refused(closing.ans)
      OBVIOUS
    <2> HIDE DEF kept
    <2>4. closing' \in Closings /\ closing'.pc = "native" /\ closing'.sid = kept
      BY <2>1, <2>2, IdleTyped DEF Closings, IdleClosing
    <2>5. ASSUME ~Refused(closing.ans)
          PROVE  Kept(s)'
      <3>1. CASE closing.ans.kind = "ok"
        BY <1>2, <3>1 DEF HandleEnd, KInv, ClosingSound, Kept
      <3>2. CASE closing.ans.kind # "ok"
        BY <1>6, <2>5, <3>2 DEF HandleEnd, QueueAfterEnd, Kept
      <3> QED
        BY <3>1, <3>2
    <2> QED
      BY <2>3, <2>4, <2>5 DEF ClosingSound
  <1>10. JobSound' /\ SigningSound'
    BY <1>2, JobStill DEF HandleEnd, KInv, SigningSound
  <1>11. ViewSound'
    BY ScreenSound, TokensSound DEF HandleEnd, ViewSound
  <1> QED
    BY <1>2, <1>8, <1>9, <1>10, <1>11 DEF KInv

LEMMA HandleEndKeeps ==
  ASSUME KInv, HandleEnd
  PROVE  KInv'
  <1>1. closing.sid \in Sessions
    BY DEF HandleEnd, KInv, ClosingSound, Closings
  <1> QED
    BY <1>1, HandleEndOf

(* the player leaves what is settled                                       *)
LEMMA LeaveKeeps ==
  ASSUME KInv, Leave
  PROVE  KInv'
  <1>1. ServerSound' /\ ClosedStays /\ UNCHANGED <<sess, queue>>
    BY RowsStill DEF Leave, KInv
  <1>2. KeptStays
    BY <1>1, QueueStill
  <1>3. closing.pc = "native" /\ closing.sid \in Sessions \cup {None}
    BY DEF Leave, KInv, ClosingSound, Closings
  <1>4. QueueSound'
    <2>1. \A s \in left' : s \in left \/ (s = closing.sid /\ s # None)
      BY DEF Leave
    <2>2. \A s \in left' : s \in Sessions /\ Kept(s)
      BY <1>3, <2>1 DEF KInv, QueueSound, EndIsKept, ClosingSound, Kept
    <2> QED
      BY <1>1, <1>2, <2>2 DEF KInv, QueueSound, EndIsKept, KeptStays, Kept
  <1>5. ClosingSound'
    <2>1. closing' = [closing EXCEPT !.pc = "tail"]
      BY DEF Leave
    <2>2. closing' \in Closings /\ closing'.pc = "tail"
      BY <2>1 DEF KInv, ClosingSound, Closings
    <2> QED
      BY <2>2 DEF ClosingSound
  <1>6. JobSound' /\ SigningSound'
    BY <1>1, JobStill DEF Leave, KInv, SigningSound
  <1>7. ViewSound'
    BY DEF Leave, Forgets, NoPlayer, KInv, ViewSound, MaybePlayer, MaybeSession
  <1> QED
    BY <1>1, <1>4, <1>5, <1>6, <1>7 DEF KInv

LEMMA FinishLeaveKeeps ==
  ASSUME KInv, FinishLeave
  PROVE  KInv'
  <1>1. ClosingSound'
    BY IdleTyped DEF FinishLeave, ClosingSound, IdleClosing
  <1>2. UNCHANGED <<sess, queue, left, signing, job>>
    BY DEF FinishLeave
  <1>3. ViewSound'
    BY DEF FinishLeave, KInv, ViewSound, MaybeSession
  <1> QED
    BY <1>1, <1>2, <1>3, ClosingQuiet

-----------------------------------------------------------------------------
(* Signing in *)

LEMMA ViewStill ==
  ASSUME KInv, UNCHANGED <<shown, snapshot, token, vault>>
  PROVE  ViewSound'
  BY DEF KInv, ViewSound

LEMMA ViewForgets ==
  ASSUME KInv, Forgets, UNCHANGED shown,
         snapshot' = None \/ UNCHANGED snapshot
  PROVE  ViewSound'
  BY DEF KInv, ViewSound, Forgets, NoPlayer, MaybePlayer, MaybeSession

LEMMA ViewShows ==
  ASSUME KInv, NEW s \in MaybeSession, Show(s), UNCHANGED <<token, vault>>
  PROVE  ViewSound'
  BY DEF KInv, ViewSound, Show, MaybeSession

LEMMA SigningParts ==
  ASSUME KInv
  PROVE  /\ signing.who \in MaybePlayer /\ signing.active \in MaybeSession
         /\ signing.bearer \in Bearers /\ signing.ans \in Answers
         /\ signing.ans.sid \in MaybeSession
  <1>1. signing \in Signings
    BY DEF KInv, SigningSound
  <1>2. signing.ans \in Answers
    BY <1>1 DEF Signings
  <1> QED
    BY <1>1, <1>2, AnswerParts DEF Signings, MaybePlayer, MaybeSession

(* the steps that end a flow, or begin one                                 *)
LEMMA SigningSteps ==
  ASSUME KInv,
         \/ \E p \in Players : BeginLogin(p)
         \/ BeginReauth \/ LoginIsServed \/ SigningIsLost
         \/ Conflicts \/ SendStart \/ SendReauthGet \/ ReauthGetIsServed
  PROVE  KInv'
  <1>1. signing \in Signings
    BY DEF KInv, SigningSound
  <1>2. SigningSound'
    <2>1. CASE \E p \in Players : BeginLogin(p)
      BY <2>1, IdleTyped, NobodyBears
         DEF BeginLogin, Station, SigningSound, Signings, IdleSigning
    <2>2. CASE BeginReauth
      <3>1. /\ signing' = [IdleSigning EXCEPT !.pc = "auth", !.who = token,
                                              !.again = TRUE, !.bearer = Station]
            /\ token \in MaybePlayer
        BY <2>2 DEF BeginReauth, KInv, ViewSound
      <3>2. Station \in Bearers
        BY NobodyBears DEF Station
      <3> QED
        BY <3>1, <3>2, IdleTyped DEF SigningSound, Signings, MaybePlayer
    <2>3. CASE LoginIsServed
      BY <1>1, <2>3, LoginTyped, RefusalTyped, NobodyBears
         DEF LoginIsServed, SigningSound, Signings
    <2>4. CASE SigningIsLost
      BY <1>1, <2>4, NoAnswerTyped, NobodyBears
         DEF SigningIsLost, SigningSound, Signings
    <2>5. CASE Conflicts
      BY <2>5, IdleTyped DEF Conflicts, SigningSound
    <2>6. CASE SendStart
      BY <1>1, <2>6, BearerTyped DEF SendStart, SigningSound, Signings, KInv
    <2>7. CASE SendReauthGet
      BY <1>1, <2>7, BearerTyped DEF SendReauthGet, SigningSound, Signings, KInv
    <2>8. CASE ReauthGetIsServed
      BY <1>1, <2>8, GetTyped, NobodyBears
         DEF ReauthGetIsServed, SigningSound, Signings
    <2> QED
      BY <2>1, <2>2, <2>3, <2>4, <2>5, <2>6, <2>7, <2>8
  <1>3. UNCHANGED <<sess, queue, left, closing, job, shown, snapshot, token, vault>>
    BY DEF BeginLogin, BeginReauth, LoginIsServed, SigningIsLost, Conflicts,
       SendStart, SendReauthGet, ReauthGetIsServed
  <1> QED
    BY <1>2, <1>3, ViewStill, SigningQuiet

LEMMA TokenSteps ==
  ASSUME KInv, KeepToken \/ DismissConflict
  PROVE  KInv'
  <1>1. signing \in Signings
    BY DEF KInv, SigningSound
  <1>2. UNCHANGED <<sess, queue, left, closing, job, shown>>
    BY DEF KeepToken, DismissConflict
  <1>3. CASE KeepToken
    <2>1. SigningSound'
      BY <1>1, <1>3, SigningParts, NoAnswerTyped
         DEF KeepToken, SigningSound, Signings, MaybeSession
    <2>2. ViewSound'
      BY <1>2, <1>3, SigningParts DEF KeepToken, Keeps, KInv, ViewSound
    <2> QED
      BY <1>2, <2>1, <2>2, SigningQuiet
  <1>4. CASE DismissConflict
    <2>1. SigningSound' /\ ViewSound'
      BY <1>1, <1>2, <1>4, ViewForgets DEF DismissConflict, SigningSound
    <2> QED
      BY <1>2, <2>1, SigningQuiet
  <1> QED
    BY <1>3, <1>4

(* a sign-in that is refused may reset the station or tear down            *)
LEMMA RefusedSteps ==
  ASSUME KInv, LoginFails \/ StartFails \/ ReauthFails
  PROVE  KInv'
  <1>1. UNCHANGED <<sess, queue, left, job>> /\ signing' = IdleSigning
    BY DEF LoginFails, StartFails, ReauthFails
  <1>2. OnUnauthorized(signing.ans) /\ (ResetTokens(signing.ans) \/ Forgets)
    BY DEF LoginFails, StartFails, ReauthFails, Unauthorized
  <1>3. SigningSound'
    BY <1>1, IdleTyped DEF SigningSound
  <1> QED
    BY <1>1, <1>2, <1>3, RefusalView, SigningQuiet

LEMMA ShowSteps ==
  ASSUME KInv, Resume \/ Started \/ Reauthenticated
  PROVE  KInv'
  <1>1. UNCHANGED <<sess, queue, left, closing, job, token, vault>>
    BY DEF Resume, Started, Reauthenticated
  <1>2. SigningSound'
    BY IdleTyped DEF Resume, Started, Reauthenticated, SigningSound
  <1>3. ViewSound'
    <2>1. CASE Resume
      BY <1>1, <2>1, SigningParts, ViewShows DEF Resume
    <2>2. CASE Started
      BY <1>1, <2>2, SigningParts, ViewShows DEF Started
    <2>3. CASE Reauthenticated
      BY <1>1, <2>3, SigningParts, ViewShows, ViewStill DEF Reauthenticated
    <2> QED
      BY <2>1, <2>2, <2>3
  <1> QED
    BY <1>1, <1>2, <1>3, SigningQuiet

(* a step of the server that opens a row, or closes one on its own         *)
LEMMA ServerMoves ==
  ASSUME KInv, ServerSound', ClosedStays,
         UNCHANGED <<queue, left, closing, job, shown, snapshot, token, vault>>,
         SigningSound'
  PROVE  KInv'
  <1>1. KeptStays
    BY QueueStill
  <1>2. QueueSound'
    BY <1>1, LeftStill DEF KInv, QueueSound
  <1> QED
    BY <1>1, <1>2, ClosingStill, JobStill, ViewStill DEF KInv

LEMMA StartIsServedKeeps ==
  ASSUME KInv, StartIsServed
  PROVE  KInv'
  <1> DEFINE new == IF Unused = {} THEN None ELSE CHOOSE s \in Unused : TRUE
  <1>1. new \in Unused \cup {None} /\ new \in MaybeSession
    BY DEF Unused, MaybeSession
  <1>2. ServeStart(signing.bearer, new)
    BY DEF StartIsServed
  <1>3. signing' = [signing EXCEPT !.pc = "started", !.bearer = None,
                                   !.ans = StartAnswer(signing.bearer, new)]
    BY DEF StartIsServed
  <1> HIDE DEF new
  <1>4. ServerSound' /\ ClosedStays
    BY <1>1, <1>2, StartServed DEF KInv
  <1>5. SigningSound'
    BY <1>1, <1>3, StartTyped, NobodyBears DEF KInv, SigningSound, Signings
  <1> QED
    BY <1>4, <1>5, ServerMoves DEF StartIsServed

-----------------------------------------------------------------------------
(* Reconciling and replaying *)

LEMMA JobParts ==
  ASSUME KInv, NEW w \in Workers
  PROVE  /\ job[w] \in Jobs /\ job[w].bearer \in Bearers /\ job[w].ans \in Answers
         /\ job[w].got \in MaybeSession /\ job[w].ans.sid \in MaybeSession
         /\ job[w].todo \subseteq Sessions /\ job[w].sid \in MaybeSession
         /\ GotOf(w) \in MaybeSession
  <1>1. job[w] \in Jobs
    BY DEF KInv, JobSound
  <1>2. job[w].ans \in Answers /\ job[w].got \in MaybeSession
    BY <1>1 DEF Jobs, MaybeSession
  <1>3. job[w].ans.sid \in MaybeSession
    BY <1>2, AnswerParts
  <1> QED
    BY <1>1, <1>2, <1>3 DEF Jobs, MaybeSession, GotOf

LEMMA ToReplayTyped ==
  ASSUME KInv
  PROVE  ToReplay \subseteq Sessions
  BY DEF KInv, QueueSound, ToReplay, IntentsFor, Intents

LEMMA JobIdles ==
  ASSUME KInv, UNCHANGED <<sess, queue, left, signing>>, ViewSound',
         UNCHANGED closing \/ TearDown, NEW w \in Workers, SetJob(w, IdleJob)
  PROVE  KInv'
  BY IdleTyped, JobQuiet

LEMMA AskingSteps ==
  ASSUME KInv, NEW w \in Workers, Reconcile(w) \/ BootWithToken(w)
  PROVE  KInv'
  <1> DEFINE Asking(kind, b) ==
               [IdleJob EXCEPT !.pc = "asked", !.kind = kind, !.bearer = b]
  <1>1. ASSUME NEW kind \in {"reconcile", "restore"}, NEW b \in Bearers
        PROVE  Asking(kind, b) \in Jobs /\ Asking(kind, b).pc = "asked"
    BY IdleTyped DEF Jobs, IdleJob
  <1>2. CASE Reconcile(w)
    <2>1. SetJob(w, Asking("reconcile", Bearer)) /\ Bearer \in Bearers
      BY <1>2, BearerTyped DEF Reconcile, KInv
    <2>2. UNCHANGED <<sess, queue, left, signing, closing, shown, snapshot, token, vault>>
      BY <1>2 DEF Reconcile, JobUnchanged
    <2> HIDE DEF Asking
    <2> QED
      BY <1>1, <2>1, <2>2, ViewStill, JobQuiet
  <1>3. CASE BootWithToken(w)
    <2> DEFINE b == IF expired THEN Stale ELSE vault
    <2>1. b \in Bearers
      BY NobodyBears DEF KInv, ViewSound
    <2>2. SetJob(w, Asking("restore", b))
      BY <1>3 DEF BootWithToken
    <2>3. UNCHANGED <<sess, queue, left, signing, closing>> /\ ViewSound'
      BY <1>3 DEF BootWithToken, KInv, ViewSound
    <2> HIDE DEF Asking, b
    <2> QED
      BY <1>1, <2>1, <2>2, <2>3, JobQuiet
  <1> QED
    BY <1>2, <1>3

LEMMA FlowSteps ==
  ASSUME KInv, NEW w \in Workers,
         \/ FlushWhenOnline(w) \/ GetIsServed(w) \/ JobIsLost(w)
         \/ GetSucceeds(w) \/ SendReplay(w)
  PROVE  KInv'
  <1>1. UNCHANGED <<sess, queue, left, signing, closing, shown, snapshot, token, vault>>
    BY DEF FlushWhenOnline, GetIsServed, JobIsLost, GetSucceeds, SendReplay,
       JobUnchanged
  <1>2. ViewSound'
    BY <1>1, ViewStill
  <1>3. CASE FlushWhenOnline(w)
    <2>1. CASE UNCHANGED job
      BY <1>1, <1>2, <2>1, QuietStep DEF KInv
    <2>2. CASE ~UNCHANGED job
      <3> DEFINE j == [IdleJob EXCEPT !.pc = "replaying", !.todo = ToReplay]
      <3>1. SetJob(w, j)
        BY <1>3, <2>2 DEF FlushWhenOnline
      <3>2. j \in Jobs /\ j.pc = "replaying"
        BY IdleTyped, ToReplayTyped DEF Jobs, IdleJob
      <3> HIDE DEF j
      <3> QED
        BY <1>1, <1>2, <3>1, <3>2, JobQuiet
    <2> QED
      BY <2>1, <2>2
  <1>4. CASE GetIsServed(w)
    <2> DEFINE j == [job[w] EXCEPT !.pc = "answered", !.bearer = None,
                                   !.ans = GetAnswer(job[w].bearer)]
    <2>1. SetJob(w, j)
      BY <1>4 DEF GetIsServed
    <2>2. j \in Jobs /\ j.pc = "answered"
      BY JobParts, GetTyped, NobodyBears DEF Jobs
    <2> HIDE DEF j
    <2> QED
      BY <1>1, <1>2, <2>1, <2>2, JobQuiet
  <1>5. CASE JobIsLost(w)
    <2> DEFINE pc == IF job[w].pc = "asked" THEN "answered" ELSE "replied"
               j == [job[w] EXCEPT !.ans = NoAnswer, !.bearer = None, !.pc = pc]
    <2>1. SetJob(w, j)
      BY <1>5 DEF JobIsLost
    <2>2. j \in Jobs /\ j.pc = pc /\ j.sid = job[w].sid /\ j.ans = NoAnswer
      BY JobParts, NoAnswerTyped, NobodyBears DEF Jobs
    <2>3. pc = "replied" => job[w].sid # None
      BY <1>5 DEF JobIsLost, KInv, JobSound
    <2>4. pc # "sent"
      OBVIOUS
    <2> HIDE DEF j, pc
    <2> QED
      BY <1>1, <1>2, <2>1, <2>2, <2>3, <2>4, JobQuiet
  <1>6. CASE GetSucceeds(w)
    <2> DEFINE j == [job[w] EXCEPT !.pc = "replaying", !.got = job[w].ans.sid,
                                   !.ans = NoAnswer, !.todo = ToReplay]
    <2>1. SetJob(w, j)
      BY <1>6 DEF GetSucceeds
    <2>2. j \in Jobs /\ j.pc = "replaying"
      BY JobParts, NoAnswerTyped, ToReplayTyped DEF Jobs, MaybeSession
    <2> HIDE DEF j
    <2> QED
      BY <1>1, <1>2, <2>1, <2>2, JobQuiet
  <1>7. CASE SendReplay(w)
    <2>1. PICK s \in job[w].todo :
            SetJob(w, [job[w] EXCEPT !.pc = "sent", !.bearer = Bearer, !.sid = s])
      BY <1>7 DEF SendReplay
    <2> DEFINE j == [job[w] EXCEPT !.pc = "sent", !.bearer = Bearer, !.sid = s]
    <2>2. s \in Sessions /\ s # None
      BY <2>1, JobParts, PlayerAssumption
    <2>3. j \in Jobs /\ j.pc = "sent" /\ j.sid = s
      BY <2>2, JobParts, BearerTyped DEF Jobs, KInv
    <2> HIDE DEF j
    <2>4. SetJob(w, j)
      BY <2>1 DEF j
    <2> QED
      BY <1>1, <1>2, <2>2, <2>3, <2>4, JobQuiet
  <1> QED
    BY <1>3, <1>4, <1>5, <1>6, <1>7

LEMMA LastSteps ==
  ASSUME KInv, NEW w \in Workers,
         \/ GetFails(w) \/ GetIsRefused(w) \/ FlushEnds(w) \/ Settle(w)
         \/ Restore(w) \/ RestoreOffline(w) \/ RestoreNothing(w)
  PROVE  KInv'
  <1>1. UNCHANGED <<sess, queue, left, signing>> /\ SetJob(w, IdleJob)
    BY DEF GetFails, GetIsRefused, FlushEnds, Settle, Restore, RestoreOffline,
       RestoreNothing, Restored, JobUnchanged
  <1>2. ViewSound' /\ (UNCHANGED closing \/ TearDown)
    <2>1. CASE GetFails(w) \/ FlushEnds(w)
      BY <2>1, ViewStill DEF GetFails, FlushEnds, JobUnchanged
    <2>2. CASE GetIsRefused(w)
      BY <2>2, ScreenSound, TokensSound DEF GetIsRefused, ViewSound
    <2>3. CASE Settle(w)
      <3>1. UNCHANGED <<token, vault>>
        BY <2>3 DEF Settle
      <3>2. CASE GotOf(w) = None
        BY <2>3, <3>1, <3>2, ViewStill DEF Settle
      <3>3. CASE GotOf(w) # None
        BY <2>3, <3>1, <3>3, JobParts, ViewShows DEF Settle
      <3> QED
        BY <3>2, <3>3
    <2>4. CASE Restore(w)
      BY <2>4, JobParts, ViewShows DEF Restore, Restored
    <2>5. CASE RestoreOffline(w)
      BY <2>5, ViewShows DEF RestoreOffline, Restored, KInv, ViewSound
    <2>6. CASE RestoreNothing(w)
      BY <2>6, ViewForgets, ViewStill DEF RestoreNothing
    <2> QED
      BY <2>1, <2>2, <2>3, <2>4, <2>5, <2>6
  <1> QED
    BY <1>1, <1>2, JobIdles

LEMMA ReplayIsServedKeeps ==
  ASSUME KInv, NEW w \in Workers, ReplayIsServed(w)
  PROVE  KInv'
  <1> DEFINE s == job[w].sid
             a == EndAnswer(job[w].bearer, s)
             j == [job[w] EXCEPT !.pc = "replied", !.bearer = None, !.ans = a]
  <1>1. s \in Sessions
    BY JobParts DEF ReplayIsServed, KInv, JobSound, MaybeSession
  <1>2. /\ ServerSound' /\ ClosedStays
        /\ a.kind = "ok" => sess'[s].at = "closed"
    BY <1>1, EndServed DEF ReplayIsServed, KInv
  <1>3. a \in Answers
    BY <1>1, EndTyped
  <1>4. SetJob(w, j)
    BY DEF ReplayIsServed
  <1>5. j \in Jobs /\ j.pc = "replied" /\ j.sid = s /\ j.ans = a
    <2> HIDE DEF a
    <2> QED
      BY <1>3, JobParts, NobodyBears DEF Jobs
  <1>6. s # None
    BY <1>1, PlayerAssumption
  <1>7. JobSound'
    <2> HIDE DEF j, a, s
    <2> QED
      BY <1>2, <1>4, <1>5, <1>6, JobSet DEF KInv
  <1>8. KeptStays
    BY <1>2, QueueStill DEF ReplayIsServed
  <1>9. QueueSound'
    BY <1>8, LeftStill DEF ReplayIsServed, KInv, QueueSound
  <1>10. ClosingSound' /\ SigningSound' /\ ViewSound'
    BY <1>2, <1>8, ClosingStill DEF ReplayIsServed, KInv, SigningSound, ViewSound
  <1> QED
    BY <1>2, <1>7, <1>9, <1>10 DEF KInv

(* what is taken off the queue is closed                                   *)
LEMMA ReplaySucceedsKeeps ==
  ASSUME KInv, NEW w \in Workers, ReplaySucceeds(w)
  PROVE  KInv'
  <1> DEFINE j == [job[w] EXCEPT !.pc = "replaying", !.sid = None,
                                 !.todo = job[w].todo \ {job[w].sid},
                                 !.ans = NoAnswer]
  <1>1. sess[job[w].sid].at = "closed"
    BY DEF ReplaySucceeds, KInv, JobSound
  <1>2. ServerSound' /\ ClosedStays /\ UNCHANGED sess
    BY RowsStill DEF ReplaySucceeds, KInv
  <1>3. \A i \in queue : i \in queue' \/ i.sid = job[w].sid
    BY DEF ReplaySucceeds, Dequeued
  <1>4. KeptStays
    BY <1>1, <1>2, <1>3 DEF KeptStays, Kept, Queued
  <1>5. QueueSound'
    BY <1>4, LeftStill DEF ReplaySucceeds, Dequeued, KInv, QueueSound
  <1>6. SetJob(w, j)
    BY DEF ReplaySucceeds
  <1>7. j \in Jobs /\ j.pc = "replaying"
    BY JobParts, NoAnswerTyped DEF Jobs
  <1>8. JobSound'
    <2> HIDE DEF j
    <2> QED
      BY <1>2, <1>6, <1>7, JobSet DEF KInv
  <1>9. ClosingSound' /\ SigningSound' /\ ViewSound'
    BY <1>2, <1>4, ClosingStill DEF ReplaySucceeds, KInv, SigningSound, ViewSound
  <1> QED
    BY <1>2, <1>5, <1>8, <1>9 DEF KInv

LEMMA ReplayFailsKeeps ==
  ASSUME KInv, NEW w \in Workers, ReplayFails(w)
  PROVE  KInv'
  <1> DEFINE j == [job[w] EXCEPT !.pc = "replaying", !.todo = {},
                                 !.sid = None, !.ans = NoAnswer]
  <1>1. UNCHANGED <<sess, queue, left, signing>> /\ SetJob(w, j)
    BY DEF ReplayFails
  <1>2. ViewSound' /\ (UNCHANGED closing \/ TearDown)
    BY RefusalView DEF ReplayFails, Unauthorized
  <1>3. j \in Jobs /\ j.pc = "replaying"
    BY JobParts, NoAnswerTyped DEF Jobs
  <1> HIDE DEF j
  <1> QED
    BY <1>1, <1>2, <1>3, JobQuiet

-----------------------------------------------------------------------------
(* Restarts, and what comes from outside *)

LEMMA RestartKeeps ==
  ASSUME KInv, Restart
  PROVE  KInv'
  <1>1. UNCHANGED <<sess, queue, left>>
    BY DEF Restart
  <1>2. ViewSound'
    BY DEF Restart, KInv, ViewSound, MaybePlayer, MaybeSession
  <1>3. ClosingSound' /\ SigningSound'
    BY IdleTyped DEF Restart, ClosingSound, SigningSound, IdleClosing
  <1>4. job' = [w \in Workers |-> IdleJob]
    BY DEF Restart
  <1>5. JobSound'
    BY <1>4, IdleTyped DEF JobSound
  <1> QED
    BY <1>1, <1>2, <1>3, <1>5, QuietStep DEF KInv

LEMMA QuietSteps ==
  ASSUME KInv,
         \/ Probe \/ Expire \/ Outage \/ Recovery
         \/ \E s \in Sessions : LoseEnded(s)
         \/ UNCHANGED vars
  PROVE  KInv'
  <1>1. UNCHANGED <<sess, queue, left, closing, job, signing, shown, snapshot,
                    token, vault>>
    BY DEF Probe, Expire, Outage, Recovery, LoseEnded, vars
  <1> QED
    BY <1>1, QuietStep DEF KInv

LEMMA BootKeeps ==
  ASSUME KInv, Boot
  PROVE  KInv'
  <1>1. UNCHANGED <<sess, queue, left, closing, job, signing>>
    BY DEF Boot
  <1>2. ViewSound'
    BY DEF Boot, KInv, ViewSound
  <1> QED
    BY <1>1, <1>2, QuietStep DEF KInv

LEMMA ReceiveEndedKeeps ==
  ASSUME KInv, NEW s \in Sessions, ReceiveEnded(s)
  PROVE  KInv'
  <1>1. UNCHANGED <<sess, queue, left, job, signing, shown, snapshot, token, vault>>
    BY DEF ReceiveEnded
  <1>2. ClosingSound'
    BY <1>1, QuietStep, ClosingStill, TornDown DEF ReceiveEnded, KInv
  <1> QED
    BY <1>1, <1>2, QuietStep DEF KInv

LEMMA ElsewhereKeeps ==
  ASSUME KInv,
         \/ \E s \in Sessions : EndElsewhere(s)
         \/ \E p \in Players : StartElsewhere(p)
  PROVE  KInv'
  <1>1. /\ UNCHANGED <<queue, left, closing, job, shown, snapshot, token, vault>>
        /\ SigningSound'
    BY DEF EndElsewhere, StartElsewhere, KInv, SigningSound
  <1>2. ASSUME NEW s \in Sessions, EndElsewhere(s)
        PROVE  KInv'
    <2>1. ServerSound' /\ ClosedStays
      BY <1>2, CloseSound DEF EndElsewhere, KInv
    <2> QED
      BY <1>1, <2>1, ServerMoves
  <1>3. ASSUME NEW p \in Players, StartElsewhere(p)
        PROVE  KInv'
    <2> DEFINE new == CHOOSE t \in Unused : TRUE
    <2>1. new \in Unused
      BY <1>3 DEF StartElsewhere
    <2>2. sess' = [sess EXCEPT ![new] = [owner |-> p, at |-> "away"]]
      BY <1>3 DEF StartElsewhere
    <2> HIDE DEF new
    <2>3. ServerSound' /\ ClosedStays
      BY <2>1, <2>2, OpenSound DEF KInv
    <2> QED
      BY <1>1, <2>3, ServerMoves
  <1> QED
    BY <1>2, <1>3

-----------------------------------------------------------------------------
LEMMA InitKept ==
  ASSUME Init
  PROVE  KInv
  <1>1. ServerSound
    BY DEF Init, ServerSound, Rows, RowsAreOwned
  <1>2. QueueSound /\ ViewSound
    BY DEF Init, QueueSound, ViewSound, EndIsKept, MaybePlayer, MaybeSession
  <1>3. ClosingSound /\ SigningSound
    BY IdleTyped DEF Init, ClosingSound, SigningSound, IdleClosing
  <1>4. job = [w \in Workers |-> IdleJob]
    BY DEF Init
  <1>5. JobSound
    BY <1>4, IdleTyped DEF JobSound
  <1> QED
    BY <1>1, <1>2, <1>3, <1>5 DEF KInv

LEMMA StepKept ==
  ASSUME KInv, [Next]_vars
  PROVE  KInv'
  <1>1. CASE PlayerStep
    <2>1. CASE EndSession
      BY <2>1, EndSessionKeeps
    <2>2. CASE DismissConflict
      BY <2>2, TokenSteps
    <2>3. ASSUME NEW p \in Players, BeginLogin(p)
          PROVE  KInv'
      BY <2>3, SigningSteps
    <2>4. CASE BeginReauth
      BY <2>4, SigningSteps
    <2> QED
      BY <1>1, <2>1, <2>2, <2>3, <2>4 DEF PlayerStep
  <1>2. CASE ClosingStep
    BY <1>2, EndIsServedKeeps, EndIsLostKeeps, HandleEndKeeps, LeaveKeeps,
       FinishLeaveKeeps DEF ClosingStep
  <1>3. CASE SigningStep
    BY <1>3, SigningSteps, TokenSteps, RefusedSteps, ShowSteps, StartIsServedKeeps
       DEF SigningStep
  <1>4. CASE Boot
    BY <1>4, BootKeeps
  <1>5. CASE Outside
    <2>1. ASSUME NEW s \in Sessions,
                 ReceiveEnded(s) \/ LoseEnded(s) \/ EndElsewhere(s)
          PROVE  KInv'
      BY <2>1, ReceiveEndedKeeps, QuietSteps, ElsewhereKeeps
    <2> QED
      BY <1>5, <2>1, QuietSteps, ElsewhereKeeps, RestartKeeps DEF Outside
  <1>6. ASSUME NEW w \in Workers, BeginJob(w) \/ JobStep(w)
        PROVE  KInv'
    BY <1>6, AskingSteps, FlowSteps, LastSteps, ReplayIsServedKeeps,
       ReplaySucceedsKeeps, ReplayFailsKeeps DEF BeginJob, JobStep
  <1>7. CASE UNCHANGED vars
    BY <1>7, QuietSteps
  <1> QED
    BY <1>1, <1>2, <1>3, <1>4, <1>5, <1>6, <1>7 DEF Next

(* No end a player asked for at the kiosk is forgotten, for any number of  *)
(* players, sessions and concurrent flows, whatever is lost and however    *)
(* often the station restarts: its session is closed or its end is queued. *)
THEOREM NoEndIsForgotten == Spec => []EndIsKept
  <1>1. Init => KInv
    BY InitKept
  <1>2. KInv /\ [Next]_vars => KInv'
    BY StepKept
  <1>3. KInv => EndIsKept
    BY DEF KInv, QueueSound
  <1> QED
    BY <1>1, <1>2, <1>3, PTL DEF Spec

-----------------------------------------------------------------------------
(* The rest of the type invariant *)

Flags ==
  /\ net \in BOOLEAN /\ online \in BOOLEAN /\ flushDue \in BOOLEAN
  /\ reauth \in BOOLEAN /\ expired \in BOOLEAN /\ provisioned \in BOOLEAN
  /\ phase \in Phases

FrameTyped == Flags /\ events \subseteq Sessions /\ spent \in 0..Budget

LEMMA SpendTyped ==
  ASSUME spent \in 0..Budget, Spend \/ UNCHANGED spent
  PROVE  spent' \in 0..Budget
  BY BudgetAssumption DEF Spend

LEMMA ServedEvents ==
  ASSUME events \subseteq Sessions, NEW b, NEW s \in Sessions, ServeEnd(b, s)
  PROVE  events' \subseteq Sessions
  BY DEF ServeEnd, Close

LEMMA PlayerStepTyped ==
  ASSUME KInv, FrameTyped, PlayerStep
  PROVE  FrameTyped'
  <1> USE DEF PlayerStep, EndSession, BeginReauth, DismissConflict,
              BeginLogin, FrameTyped, Flags
  <1>1. net' \in BOOLEAN /\ online' \in BOOLEAN /\ flushDue' \in BOOLEAN
    BY ZenonT(40) DEF SetOnline, Unauthorized, OnUnauthorized, ResetScreen,
           ResetTokens, LogOut, Dismisses, NoPlayer, Forgets, Keeps, Show, JobUnchanged, Restored, OnlineIfAnswered
  <1>2. reauth' \in BOOLEAN
    BY ZenonT(40) DEF SetOnline, Unauthorized, OnUnauthorized, ResetScreen,
           ResetTokens, LogOut, Dismisses, NoPlayer, Forgets, Keeps, Show, JobUnchanged, Restored, OnlineIfAnswered
  <1>3. expired' \in BOOLEAN /\ provisioned' \in BOOLEAN
    BY ZenonT(40) DEF SetOnline, Unauthorized, OnUnauthorized, ResetScreen,
           ResetTokens, LogOut, Dismisses, NoPlayer, Forgets, Keeps, Show, JobUnchanged, Restored, OnlineIfAnswered
  <1>4. phase' \in Phases
    BY ZenonT(40) DEF SetOnline, Unauthorized, OnUnauthorized, ResetScreen,
           ResetTokens, LogOut, Dismisses, NoPlayer, Forgets, Keeps, Show, JobUnchanged, Restored, OnlineIfAnswered, Phases
  <1>5. Spend \/ UNCHANGED spent
    BY ZenonT(40) DEF JobUnchanged, Restored
  <1>6. events' \subseteq Sessions
    BY ZenonT(40) DEF ServeStart, Close, JobUnchanged, Restored
  <1> QED
    BY <1>1, <1>2, <1>3, <1>4, <1>5, <1>6, SpendTyped

LEMMA ClosingStepTyped ==
  ASSUME KInv, FrameTyped, ClosingStep
  PROVE  FrameTyped'
  <1> USE DEF ClosingStep, EndIsLost, HandleEnd, Leave, FinishLeave,
              EndIsServed, FrameTyped, Flags
  <1>1. net' \in BOOLEAN /\ online' \in BOOLEAN /\ flushDue' \in BOOLEAN
    BY ZenonT(40) DEF SetOnline, Unauthorized, OnUnauthorized, ResetScreen,
           ResetTokens, LogOut, Dismisses, NoPlayer, Forgets, Keeps, Show, JobUnchanged, Restored, OnlineIfAnswered
  <1>2. reauth' \in BOOLEAN
    BY ZenonT(40) DEF SetOnline, Unauthorized, OnUnauthorized, ResetScreen,
           ResetTokens, LogOut, Dismisses, NoPlayer, Forgets, Keeps, Show, JobUnchanged, Restored, OnlineIfAnswered
  <1>3. expired' \in BOOLEAN /\ provisioned' \in BOOLEAN
    BY ZenonT(40) DEF SetOnline, Unauthorized, OnUnauthorized, ResetScreen,
           ResetTokens, LogOut, Dismisses, NoPlayer, Forgets, Keeps, Show, JobUnchanged, Restored, OnlineIfAnswered
  <1>4. phase' \in Phases
    BY ZenonT(40) DEF SetOnline, Unauthorized, OnUnauthorized, ResetScreen,
           ResetTokens, LogOut, Dismisses, NoPlayer, Forgets, Keeps, Show, JobUnchanged, Restored, OnlineIfAnswered, Phases
  <1>5. Spend \/ UNCHANGED spent
    BY ZenonT(40) DEF JobUnchanged, Restored
  <1>6. events' \subseteq Sessions
    <2>1. CASE EndIsServed
      <3>1. closing.sid \in Sessions
        BY <2>1 DEF KInv, ClosingSound, Closings, MaybeSession
      <3> QED
        BY <2>1, <3>1, ServedEvents
    <2>2. CASE ~EndIsServed
      BY ZenonT(40), <2>2 DEF JobUnchanged, Restored
    <2> QED
      BY <2>1, <2>2
  <1> QED
    BY <1>1, <1>2, <1>3, <1>4, <1>5, <1>6, SpendTyped

LEMMA SigningStepTyped ==
  ASSUME KInv, FrameTyped, SigningStep
  PROVE  FrameTyped'
  <1> USE DEF SigningStep, LoginIsServed, SigningIsLost, LoginFails,
              Conflicts, KeepToken, Resume, SendStart,
              StartIsServed, Started, StartFails, SendReauthGet,
              ReauthGetIsServed, Reauthenticated, ReauthFails,
              FrameTyped, Flags
  <1>1. net' \in BOOLEAN /\ online' \in BOOLEAN /\ flushDue' \in BOOLEAN
    BY ZenonT(40) DEF SetOnline, Unauthorized, OnUnauthorized, ResetScreen,
           ResetTokens, LogOut, Dismisses, NoPlayer, Forgets, Keeps, Show, JobUnchanged, Restored, OnlineIfAnswered
  <1>2. reauth' \in BOOLEAN
    BY ZenonT(40) DEF SetOnline, Unauthorized, OnUnauthorized, ResetScreen,
           ResetTokens, LogOut, Dismisses, NoPlayer, Forgets, Keeps, Show, JobUnchanged, Restored, OnlineIfAnswered
  <1>3. expired' \in BOOLEAN /\ provisioned' \in BOOLEAN
    BY ZenonT(40) DEF SetOnline, Unauthorized, OnUnauthorized, ResetScreen,
           ResetTokens, LogOut, Dismisses, NoPlayer, Forgets, Keeps, Show, JobUnchanged, Restored, OnlineIfAnswered
  <1>4. phase' \in Phases
    BY ZenonT(40) DEF SetOnline, Unauthorized, OnUnauthorized, ResetScreen,
           ResetTokens, LogOut, Dismisses, NoPlayer, Forgets, Keeps, Show, JobUnchanged, Restored, OnlineIfAnswered, Phases
  <1>5. Spend \/ UNCHANGED spent
    BY ZenonT(40) DEF JobUnchanged, Restored
  <1>6. events' \subseteq Sessions
    BY ZenonT(40) DEF ServeStart, Close, JobUnchanged, Restored
  <1> QED
    BY <1>1, <1>2, <1>3, <1>4, <1>5, <1>6, SpendTyped

LEMMA OutsideTyped ==
  ASSUME KInv, FrameTyped, Outside
  PROVE  FrameTyped'
  <1> USE DEF Outside, Probe, Expire, Outage, Recovery, Restart, ReceiveEnded,
              LoseEnded, EndElsewhere, StartElsewhere,
              FrameTyped, Flags
  <1>1. net' \in BOOLEAN /\ online' \in BOOLEAN /\ flushDue' \in BOOLEAN
    BY ZenonT(40) DEF SetOnline, Unauthorized, OnUnauthorized, ResetScreen,
           ResetTokens, LogOut, Dismisses, NoPlayer, Forgets, Keeps, Show, JobUnchanged, Restored, OnlineIfAnswered
  <1>2. reauth' \in BOOLEAN
    BY ZenonT(40) DEF SetOnline, Unauthorized, OnUnauthorized, ResetScreen,
           ResetTokens, LogOut, Dismisses, NoPlayer, Forgets, Keeps, Show, JobUnchanged, Restored, OnlineIfAnswered
  <1>3. expired' \in BOOLEAN /\ provisioned' \in BOOLEAN
    BY ZenonT(40) DEF SetOnline, Unauthorized, OnUnauthorized, ResetScreen,
           ResetTokens, LogOut, Dismisses, NoPlayer, Forgets, Keeps, Show, JobUnchanged, Restored, OnlineIfAnswered
  <1>4. phase' \in Phases
    BY ZenonT(40) DEF SetOnline, Unauthorized, OnUnauthorized, ResetScreen,
           ResetTokens, LogOut, Dismisses, NoPlayer, Forgets, Keeps, Show, JobUnchanged, Restored, OnlineIfAnswered, Phases
  <1>5. Spend \/ UNCHANGED spent
    BY ZenonT(40) DEF JobUnchanged, Restored
  <1>6. events' \subseteq Sessions
    BY ZenonT(40) DEF ServeStart, Close, JobUnchanged, Restored
  <1> QED
    BY <1>1, <1>2, <1>3, <1>4, <1>5, <1>6, SpendTyped

LEMMA BeginJobTyped ==
  ASSUME KInv, FrameTyped, NEW w \in Workers, BeginJob(w)
  PROVE  FrameTyped'
  <1> USE DEF BeginJob, Reconcile, FlushWhenOnline, BootWithToken, FrameTyped,
              Flags
  <1>1. net' \in BOOLEAN /\ online' \in BOOLEAN /\ flushDue' \in BOOLEAN
    BY ZenonT(40) DEF SetOnline, Unauthorized, OnUnauthorized, ResetScreen,
           ResetTokens, LogOut, Dismisses, NoPlayer, Forgets, Keeps, Show, JobUnchanged, Restored, OnlineIfAnswered
  <1>2. reauth' \in BOOLEAN
    BY ZenonT(40) DEF SetOnline, Unauthorized, OnUnauthorized, ResetScreen,
           ResetTokens, LogOut, Dismisses, NoPlayer, Forgets, Keeps, Show, JobUnchanged, Restored, OnlineIfAnswered
  <1>3. expired' \in BOOLEAN /\ provisioned' \in BOOLEAN
    BY ZenonT(40) DEF SetOnline, Unauthorized, OnUnauthorized, ResetScreen,
           ResetTokens, LogOut, Dismisses, NoPlayer, Forgets, Keeps, Show, JobUnchanged, Restored, OnlineIfAnswered
  <1>4. phase' \in Phases
    BY ZenonT(40) DEF SetOnline, Unauthorized, OnUnauthorized, ResetScreen,
           ResetTokens, LogOut, Dismisses, NoPlayer, Forgets, Keeps, Show, JobUnchanged, Restored, OnlineIfAnswered, Phases
  <1>5. Spend \/ UNCHANGED spent
    BY ZenonT(40) DEF JobUnchanged, Restored
  <1>6. events' \subseteq Sessions
    BY ZenonT(40) DEF ServeStart, Close, JobUnchanged, Restored
  <1> QED
    BY <1>1, <1>2, <1>3, <1>4, <1>5, <1>6, SpendTyped

LEMMA JobStepTyped ==
  ASSUME KInv, FrameTyped, NEW w \in Workers, JobStep(w)
  PROVE  FrameTyped'
  <1> USE DEF JobStep, GetIsServed, JobIsLost, GetSucceeds, GetFails,
              GetIsRefused, SendReplay, ReplayIsServed,
              ReplaySucceeds, ReplayFails, FlushEnds, Settle,
              Restore, RestoreOffline, RestoreNothing,
              FrameTyped, Flags
  <1>1. net' \in BOOLEAN /\ online' \in BOOLEAN /\ flushDue' \in BOOLEAN
    BY ZenonT(40) DEF SetOnline, Unauthorized, OnUnauthorized, ResetScreen,
           ResetTokens, LogOut, Dismisses, NoPlayer, Forgets, Keeps, Show, JobUnchanged, Restored, OnlineIfAnswered
  <1>2. reauth' \in BOOLEAN
    BY ZenonT(40) DEF SetOnline, Unauthorized, OnUnauthorized, ResetScreen,
           ResetTokens, LogOut, Dismisses, NoPlayer, Forgets, Keeps, Show, JobUnchanged, Restored, OnlineIfAnswered
  <1>3. expired' \in BOOLEAN /\ provisioned' \in BOOLEAN
    BY ZenonT(40) DEF SetOnline, Unauthorized, OnUnauthorized, ResetScreen,
           ResetTokens, LogOut, Dismisses, NoPlayer, Forgets, Keeps, Show, JobUnchanged, Restored, OnlineIfAnswered
  <1>4. phase' \in Phases
    BY ZenonT(40) DEF SetOnline, Unauthorized, OnUnauthorized, ResetScreen,
           ResetTokens, LogOut, Dismisses, NoPlayer, Forgets, Keeps, Show, JobUnchanged, Restored, OnlineIfAnswered, Phases
  <1>5. Spend \/ UNCHANGED spent
    BY ZenonT(40) DEF JobUnchanged, Restored
  <1>6. events' \subseteq Sessions
    <2>1. CASE ReplayIsServed(w)
      <3>1. job[w].sid \in Sessions
        BY <2>1, JobParts DEF KInv, JobSound, Jobs, MaybeSession
      <3> QED
        BY <2>1, <3>1, ServedEvents
    <2>2. CASE ~ReplayIsServed(w)
      BY ZenonT(40), <2>2 DEF JobUnchanged, Restored
    <2> QED
      BY <2>1, <2>2
  <1> QED
    BY <1>1, <1>2, <1>3, <1>4, <1>5, <1>6, SpendTyped

LEMMA BootTyped ==
  ASSUME FrameTyped, Boot \/ UNCHANGED vars
  PROVE  FrameTyped'
  BY ZenonT(40) DEF FrameTyped, Flags, Boot, vars, SetOnline, Phases

LEMMA InitTyped ==
  ASSUME Init
  PROVE  FrameTyped
  <1>1. Flags /\ events \subseteq Sessions
    BY ZenonT(40) DEF Init, Flags, Phases
  <1>2. spent \in 0..Budget
    BY BudgetAssumption DEF Init
  <1> QED
    BY <1>1, <1>2 DEF FrameTyped

(* Every reachable state is well typed.  The invariant that TLC checks     *)
(* holds for all values of the constants: it is what the flows rely on     *)
(* when they use an answer that is not theirs to check.                    *)
THEOREM FlowsAreSound == Spec => []IInv
  <1>1. Init => KInv /\ FrameTyped
    BY InitKept, InitTyped
  <1>2. KInv /\ FrameTyped /\ [Next]_vars => KInv' /\ FrameTyped'
    <2> SUFFICES ASSUME KInv, FrameTyped, [Next]_vars
                 PROVE  KInv' /\ FrameTyped'
      OBVIOUS
    <2>1. KInv'
      BY StepKept
    <2>2. FrameTyped'
      BY PlayerStepTyped, ClosingStepTyped, SigningStepTyped, OutsideTyped,
         BeginJobTyped, JobStepTyped, BootTyped DEF Next
    <2> QED
      BY <2>1, <2>2
  <1>3. KInv /\ FrameTyped => IInv
    <2> SUFFICES ASSUME KInv, FrameTyped
                 PROVE  IInv
      OBVIOUS
    <2>1. TypeOK
      <3>1. {net, online, reauth, expired, provisioned, flushDue} \subseteq BOOLEAN
        BY DEF FrameTyped, Flags
      <3> QED
        BY <3>1 DEF TypeOK, KInv, FrameTyped, Flags, ServerSound, QueueSound,
           ViewSound, ClosingSound, SigningSound, JobSound, MaybeSession,
           MaybePlayer
    <2>2. AnsweredIsClosed /\ LeavingIsSettled /\ Asked
      BY DEF KInv, ClosingSound, JobSound, AnsweredIsClosed, LeavingIsSettled,
         Asked, Kept
    <2> QED
      BY <2>1, <2>2 DEF IInv, KInv, ServerSound, QueueSound
  <1> QED
    BY <1>1, <1>2, <1>3, PTL DEF Spec
=============================================================================
