----------------------------- MODULE Cognition ------------------------------
(***************************************************************************)
(* How the Cognition thread chooses the images it processes                *)
(* (Threads/Cognition.cpp).  Two camera threads deliver the time of their  *)
(* latest image through the packet exchange, in which an unread packet is  *)
(* replaced by a later one; Cognition is to process the two cameras in     *)
(* turn, never going back in time, and never waiting while an image is     *)
(* left over.  In each frame it also reads the team messages that arrived, *)
(* which are handled only if the frame is executed.                        *)
(***************************************************************************)
EXTENDS Naturals, FiniteSets, SPLStandardMessageBuffer

CONSTANTS
  StartTime,      \* FrameInfo::time before any image was received
  MaxTime,        \* bound: the time of the last image
  MaxBurst,       \* bound: the packets that arrive in one frame
  MaxReceived     \* bound: the messages received while no frame is executed

ASSUME CognitionAssumption ==
  /\ StartTime \in Nat \ {0} /\ MaxTime \in Nat /\ StartTime <= MaxTime
  /\ MaxBurst \in Nat /\ MaxReceived \in Nat

VARIABLES
  logReplay,          \* SystemCall::getMode() == SystemCall::logFileReplay (input)
  frameTime,          \* per camera: the FrameInfo in Cognition's blackboard
  lastFrameTime,      \* lastUpperFrameTime and lastLowerFrameTime
  isNew,              \* upperIsNew and lowerIsNew
  lastAcceptedTime, acceptNext,
  isUpper,            \* the camera of the current frame
  pc,                 \* the thread's location in its frame
  signal,             \* was the thread triggered?
  processed,          \* per camera: the time of the last image accepted
  inTeamMessages,     \* the team messages received and not handled yet
  received,           \* how many were received since the last were handled (history)
  unused              \* the cameras of which frames have found another image than before
                      \* since an image was used (history)

vars == <<logReplay, frameTime, lastFrameTime, isNew, lastAcceptedTime, acceptNext, isUpper,
          pc, signal, processed, inTeamMessages, received, unused>>

Camera == {"upper", "lower"}
Other(c) == IF c = "upper" THEN "lower" ELSE "upper"

\* The constructor has allocated both FrameInfos.
Init ==
  /\ logReplay \in BOOLEAN
  /\ frameTime = [c \in Camera |-> StartTime]
  /\ lastFrameTime = [c \in Camera |-> 0]
  /\ isNew = [c \in Camera |-> FALSE]
  /\ lastAcceptedTime = 0 /\ acceptNext = FALSE
  /\ isUpper = FALSE
  /\ pc = "frame" /\ signal = FALSE
  /\ processed = [c \in Camera |-> 0]
  /\ inTeamMessages = EmptyBuffer /\ received = 0
  /\ unused = {}

\* A packet of a camera thread is received: its images get later and later,
\* those of the two cameras in any relation. A log may be rewound.
Deliver(c) ==
  /\ \E t \in 1..MaxTime :
       /\ t > frameTime[c] \/ (logReplay /\ t # frameTime[c])
       /\ frameTime' = [frameTime EXCEPT ![c] = t]
  /\ signal' = TRUE
  /\ UNCHANGED <<logReplay, lastFrameTime, isNew, lastAcceptedTime, acceptNext, isUpper,
                 pc, processed, inTeamMessages, received, unused>>

Wake ==
  /\ pc = "wait" /\ signal
  /\ signal' = FALSE /\ pc' = "frame"
  /\ UNCHANGED <<logReplay, frameTime, lastFrameTime, isNew, lastAcceptedTime, acceptNext,
                 isUpper, processed, inTeamMessages, received, unused>>

\* Which of the packets that have arrived are messages.
Burst == UNION {[1..n -> BOOLEAN] : n \in 0..MaxBurst}
Messages(p, n) == Cardinality({i \in 1..n : p[i]})
Numbered(p) == [i \in DOMAIN p |-> IF p[i] THEN received + Messages(p, i) ELSE Nothing]

\* The packets that have arrived are read at the beginning of beforeFrame(). If the
\* frame is executed, all messages are handled in beforeModules(). Whether it is
\* depends on the image, on changes of the module configuration and on LogDataProvider,
\* and in the first one there is nobody to handle the messages. A robot whose log is
\* replayed has no team mates.
TeamMessages ==
  \E p \in Burst, handled \in BOOLEAN :
    LET n == received + Messages(p, Len(p))
        b == receive(inTeamMessages, Numbered(p))
    IN  /\ n <= MaxReceived /\ (logReplay => p = <<>>)
        /\ inTeamMessages' = IF handled THEN Taken(b) ELSE b
        /\ received' = IF handled THEN 0 ELSE n

\* The cameras of which the frame finds another image than the one before.
Changed == {c \in Camera : frameTime[c] # lastFrameTime[c]}

\* Mutant: an older image is not new in a log replay either.
NewIfLater(c) == isNew[c] \/ (c \in Changed /\ frameTime[c] >= lastAcceptedTime)

\* upperIsNew and lowerIsNew after the first look at the frame times.
NewNow(c) ==
  isNew[c] \/ /\ c \in Changed
              /\ frameTime[c] >= lastAcceptedTime \/ logReplay

\* The camera whose turn it is.
Current == Other(IF isUpper THEN "upper" ELSE "lower")

\* Mutant: the left-over image may be older.
AnyLeftOver == NewNow(Other(Current))

\* The other frame can only be used if not older than the current one.
LeftOver ==
  NewNow(Other(Current)) /\ frameTime[Current] <= frameTime[Other(Current)]

\* Mutant: the flag of the image that is used is not reset.
BothStayNew(c) == NewNow(c) /\ (c # Current => LeftOver)

\* upperIsNew and lowerIsNew after an image was accepted.
StaysNew(c) == c # Current /\ LeftOver

AcceptedTime == frameTime[Current]

\* beforeFrame() with an image for the camera whose turn it is, and the frame;
\* afterFrame() skips the wait if the other image is left.
Accept ==
  /\ pc = "frame"
  /\ acceptNext \/ \A c \in Camera : NewNow(c)
  /\ isUpper' = (Current = "upper")
  /\ lastFrameTime' = frameTime
  /\ lastAcceptedTime' = AcceptedTime
  /\ isNew' = [c \in Camera |-> StaysNew(c)]
  /\ acceptNext' = LeftOver
  /\ processed' = [processed EXCEPT ![Current] = frameTime[Current]]
  /\ pc' = IF acceptNext' THEN "frame" ELSE "wait"
  /\ unused' = {}
  /\ UNCHANGED <<logReplay, frameTime, signal>>
  /\ TeamMessages

\* Mutant: an image that arrived alone is forgotten.
PassForgetting ==
  /\ pc = "frame"
  /\ ~acceptNext /\ \E c \in Camera : ~NewNow(c)
  /\ lastFrameTime' = frameTime
  /\ isNew' = [c \in Camera |-> FALSE]
  /\ pc' = "wait"
  /\ unused' = unused \union Changed
  /\ UNCHANGED <<logReplay, frameTime, lastAcceptedTime, acceptNext, isUpper, signal,
                 processed>>
  /\ TeamMessages

\* beforeFrame() without.
Pass ==
  /\ pc = "frame"
  /\ ~acceptNext /\ \E c \in Camera : ~NewNow(c)
  /\ lastFrameTime' = frameTime
  /\ isNew' = [c \in Camera |-> NewNow(c)]
  /\ pc' = "wait"
  /\ unused' = unused \union Changed
  /\ UNCHANGED <<logReplay, frameTime, lastAcceptedTime, acceptNext, isUpper, signal,
                 processed>>
  /\ TeamMessages

Frame == Wake \/ Accept \/ Pass
Next == Frame \/ \E c \in Camera : Deliver(c)

Spec == Init /\ [][Next]_vars
\* The thread is scheduled; that images arrive is not assumed.
FairSpec == Spec /\ WF_vars(Frame)

-----------------------------------------------------------------------------
Time == 0..MaxTime

ImagesTyped ==
  /\ logReplay \in BOOLEAN
  /\ frameTime \in [Camera -> Time] /\ lastFrameTime \in [Camera -> Time]
  /\ isNew \in [Camera -> BOOLEAN]
  /\ lastAcceptedTime \in Time
  /\ acceptNext \in BOOLEAN /\ isUpper \in BOOLEAN
  /\ pc \in {"frame", "wait"} /\ signal \in BOOLEAN
  /\ processed \in [Camera -> Time]
  /\ unused \subseteq Camera

MessagesTyped ==
  /\ received \in 0..MaxReceived
  /\ inTeamMessages \in [buffer : [0..(Capacity - 1) -> Nat], head : 0..(Capacity - 1),
                         entries : 0..Capacity]

TypeOK == ImagesTyped /\ MessagesTyped

\* Except in a log replay, Cognition never goes back in time, whatever the order in
\* which the images of the two cameras arrive, are replaced and are left over.
NeverBack == [][~logReplay => lastAcceptedTime' >= lastAcceptedTime]_vars

\* No image is processed twice, although "acceptNext" starts a frame without a
\* new image having arrived.
NoImageTwice ==
  [][\A c \in Camera :
       ~logReplay /\ isUpper' # isUpper /\ c = (IF isUpper' THEN "upper" ELSE "lower")
         => processed'[c] > processed[c]]_vars

\* The camera that goes next is the one an image is left over for, and the
\* thread is not asleep then.
LeftoverIsNext ==
  acceptNext => /\ isNew[IF isUpper THEN "lower" ELSE "upper"]
                /\ pc = "frame"

\* Why time never runs back: an image counted as new is not older than the last
\* one accepted and later than the last one processed of its camera.
TimesInOrder ==
  \A c \in Camera :
    /\ processed[c] <= lastFrameTime[c] /\ lastFrameTime[c] <= frameTime[c]
    /\ isNew[c] => frameTime[c] >= lastAcceptedTime /\ frameTime[c] > processed[c]

\* In a log replay every other image is new, whatever its time.
AllNewInReplay == \A c \in unused : isNew[c]

ImagesInOrder ==
  /\ ImagesTyped /\ LeftoverIsNext
  /\ IF logReplay THEN AllNewInReplay ELSE TimesInOrder

\* When a log is rewound, the images that follow are older than those seen before.
\* Still one is used as soon as frames have found another image of each camera since
\* the last was used; Cognition does not wait until the log is past where it was.
PairIsUsed == logReplay => unused # Camera

\* Once both cameras have delivered an image from t or later, one from t or
\* later is processed: no image is forgotten such that both cameras have to
\* deliver again.
KeepsUp ==
  \A t \in 1..MaxTime :
    (~logReplay /\ \A c \in Camera : frameTime[c] >= t) ~> lastAcceptedTime >= t

\* The ring buffer always holds the newest messages since the last were handled,
\* as many as fit beside the slot that is reserved for the next, in the order in
\* which they came; packets with a wrong size cost none of them.
KeepsNewest ==
  LET n == IF received < Capacity THEN received ELSE Capacity - 1
  IN  TakenBack(inTeamMessages) = [i \in 1..n |-> received - n + i]

IInv == ImagesInOrder /\ MessagesTyped /\ KeepsNewest
=============================================================================
