----------------------------- MODULE PaperTape ------------------------------
(* Paper tape reader and punch with the front end that serves them:        *)
(* fe_svc(), svc_ptr() and svc_ptp() of host/fe/6/real.c, called by the    *)
(* main loop of host/fe/fe.c whenever nobody types.                        *)
(*                                                                         *)
(* The front end is one thread.  It reads which devices ask                *)
(* (common/fe_req.v), then serves the reader, then the punch, each step as *)
(* late as it likes: commands, the terminal and the files hold it up.      *)
EXTENDS PtReader, PtPunch

VARIABLES
  fe,       \* next step of fe_svc(): poll, ptr, give or ptp
  req,      \* the requests it has seen
  c,        \* the frame it has read from its file
  orphan    \* history: the reader was stopped while it is being served

feVars == <<fe, req, c, orphan>>
vars == <<used, readerVars, punchVars, feVars>>

TypeOK ==
  /\ ReaderTypeOK /\ PunchTypeOK
  /\ fe \in {"poll", "ptr", "give", "ptp"}
  /\ req \subseteq {"ptr", "ptp"}
  /\ c \in Frames \cup {NoFrame} /\ (c # NoFrame <=> fe = "give")
  /\ orphan \in BOOLEAN

Init ==
  /\ ReaderInit /\ PunchInit
  /\ fe = "poll" /\ req = {} /\ c = NoFrame /\ orphan = FALSE

fe_req == (IF ptr_req THEN {"ptr"} ELSE {}) \cup (IF ptp_req THEN {"ptp"} ELSE {})

Poll ==
  /\ fe = "poll" /\ fe_req # {}
  /\ req' = fe_req
  /\ fe' = IF ptr_req THEN "ptr" ELSE "ptp"
  /\ UNCHANGED <<readerVars, punchVars, c, orphan>>

(* svc_ptr(): a frame from the file, or 0777 if there is none left.        *)
ReadFile ==
  /\ fe = "ptr"
  /\ \E f \in Frames : c' = f
  /\ fe' = "give"
  /\ UNCHANGED <<readerVars, punchVars, req, orphan>>

(* Fault: the requests are looked at again after each service.             *)
AfterReaderPolls == "poll"

(* fe_svc() goes on with the requests it has seen.                         *)
AfterReader == IF "ptp" \in req THEN "ptp" ELSE "poll"

GiveFrame ==
  /\ fe = "give"
  /\ Answer(c) \/ AnswerIgnored
  /\ c' = NoFrame /\ fe' = AfterReader /\ orphan' = FALSE
  /\ req' = req \ {"ptr"}
  /\ UNCHANGED punchVars

(* svc_ptp().                                                              *)
TakeChar ==
  /\ fe = "ptp"
  /\ s_read
  /\ fe' = "poll" /\ req' = {}
  /\ UNCHANGED <<readerVars, c, orphan>>

ServingReader == fe \in {"ptr", "give"}

Reader ==
  /\ ReaderTimes \/ ReaderUsed
  /\ orphan' = (orphan \/ (ServingReader /\ (~moving' \/ AnyPtrCono)))
  /\ UNCHANGED <<used, punchVars, fe, req, c>>

Punch ==
  /\ PunchTimes \/ motor_off \/ ("punch" \in used /\ PunchUsed)
  /\ UNCHANGED <<used, readerVars, feVars>>

FrontEnd == (Poll \/ ReadFile \/ GiveFrame \/ TakeChar) /\ UNCHANGED used

Next == Reader \/ Punch \/ FrontEnd

Spec == Init /\ [][Next]_vars

(* The delays and the clock never stop, the front end's loop comes round,  *)
(* and not all of a tape is leader.                                        *)
Fairness ==
  /\ WF_vars(ReaderTimes /\ Reader)
  /\ WF_vars(start_over /\ Punch) /\ WF_vars(ptp_clk /\ Punch)
  /\ WF_vars(ptp_write_done /\ Punch)
  /\ WF_vars(FrontEnd)
  /\ SF_vars(FrontEnd /\ c' \in Data)
FairSpec == Spec /\ Fairness

-----------------------------------------------------------------------------
(* Properties.                                                             *)

WordEnds == (fe_trail_pulse \/ GiveFrame) /\ ptr_busy /\ ~ptr_busy'

(* However early or late the front end answers each frame, the word is     *)
(* made of the frames it answered since the word began, each of them once, *)
(* and there are six of them in binary, one otherwise.  Two cases are      *)
(* excepted: a sixth frame answered after its trailing edge, and a word    *)
(* begun while the key feeds a frame that is past its middle.              *)
WordComplete ==
  [][WordEnds /\ marred' = {} =>
       ptr' = taken' /\ Len(ptr') = IF ptr_b THEN WordLength ELSE 1]_vars

(* A frame the front end has taken from its file is not thrown away unless *)
(* the reader was stopped while it was being fetched.                      *)
FrameDelivered == [][GiveFrame /\ AnswerIgnored => orphan]_vars

(* ptp_done asks for the next character only if the front end has read the *)
(* last one, save a character given during the write of another.           *)
DoneWhenRead ==
  [][ptp_busy /\ ~ptp_busy' /\ (ptp_write_done \/ TakeChar) =>
       owed' = None \/ beside # "none"]_vars

(* No character is punched twice or after another took its place.          *)
PunchedOnce == [][TakeChar /\ s_readdata # Blank => owed = s_readdata]_vars

(* A word asked for arrives unless the motor is stopped, and a character   *)
(* given is punched, if the program does not start either over for ever.   *)
WordArrives ==
  (<>[][~AnyPtrCono]_vars) =>
    ((ptr_busy /\ motor_on) ~> (~ptr_busy \/ ~motor_on))
CharLeaves ==
  (<>[][~AnyPtpCono]_vars) => (ptp_busy ~> ~ptp_busy)

(* ptr.v:67 has ptr_sr shift through 36,30,24,18,12,6: a binary word is    *)
(* six frames.                                                             *)
SixFrames ==
  [][WordEnds /\ ptr_b /\ "joined" \notin marred' => Len(taken') = WordLength]_vars

(* ptp.v:151 wants to synchronize with the front end: a program that waits *)
(* for the flag loses no character.                                        *)
Synchronized ==
  [][ptp_busy /\ ~ptp_busy' /\ (ptp_write_done \/ TakeChar) =>
       owed' = None \/ beside = "cut"]_vars
=============================================================================
