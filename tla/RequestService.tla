----------------------------- MODULE RequestService ----------------------------
(***************************************************************************)
(* What the round tripper promises to each client, without its targets,    *)
(* locks and statistics: a request is tried until a node gives a good      *)
(* answer, which then reaches the client whatever else happens; a bad      *)
(* answer is passed on, or an error returned, only when every attempt has  *)
(* been used, the client has left, or no node can be asked; and once the   *)
(* client has left at most one more attempt is made.                       *)
(***************************************************************************)
EXTENDS Naturals

CONSTANTS Clients, MaxTries

VARIABLES state,    \* "none", "open" between tries, "trying", "closed"
          tries,    \* the attempts made
          answer,   \* what the latest of them came to
          patience, \* is the client still there, and has that been ignored?
          reply     \* what the client got

serviceVars == <<state, tries, answer, patience, reply>>

ServiceInit ==
    /\ state    = [c \in Clients |-> "none"]
    /\ tries    = [c \in Clients |-> 0]
    /\ answer   = [c \in Clients |-> "none"]
    /\ patience = [c \in Clients |-> "waiting"]
    /\ reply    = [c \in Clients |-> "none"]

Open(c) ==
    /\ state[c] \in {"none", "closed"}
    /\ state'    = [state EXCEPT ![c] = "open"]
    /\ tries'    = [tries EXCEPT ![c] = 0]
    /\ answer'   = [answer EXCEPT ![c] = "none"]
    /\ patience' = [patience EXCEPT ![c] = "waiting"]
    /\ reply'    = [reply EXCEPT ![c] = "none"]

Leave(c) ==
    /\ state[c] \in {"open", "trying"} /\ patience[c] = "waiting"
    /\ patience' = [patience EXCEPT ![c] = "gone"]
    /\ UNCHANGED <<state, tries, answer, reply>>

\* One try may go out for a client that has just left, not a second one.
Try(c) ==
    /\ state[c] = "open" /\ tries[c] < MaxTries
    /\ answer[c] # "good" /\ patience[c] # "ignored"
    /\ state' = [state EXCEPT ![c] = "trying"]
    /\ tries' = [tries EXCEPT ![c] = @ + 1]
    /\ patience' = [patience EXCEPT ![c] = IF @ = "gone" THEN "ignored" ELSE @]
    /\ UNCHANGED <<answer, reply>>

\* A bad answer is one that another node may give better.
NodeAnswers(c, a) ==
    /\ state[c] = "trying"
    /\ state'  = [state EXCEPT ![c] = "open"]
    /\ answer' = [answer EXCEPT ![c] = a]
    /\ UNCHANGED <<tries, patience, reply>>

Exhausted(c) == tries[c] = MaxTries

MayReply(c, s) ==
    \/ s = "response" /\ answer[c] = "good"
    \/ s = "response" /\ answer[c] = "bad" /\ Exhausted(c)
    \/ s = "500" /\ answer[c] = "failed" /\ Exhausted(c)
    \/ s = "499" /\ answer[c] # "good" /\ patience[c] # "waiting"
    \/ s = "503" /\ answer[c] # "good" /\ ~Exhausted(c)

Close(c, s) ==
    /\ state[c] = "open" /\ MayReply(c, s)
    /\ state' = [state EXCEPT ![c] = "closed"]
    /\ reply' = [reply EXCEPT ![c] = s]
    /\ UNCHANGED <<tries, answer, patience>>

ServiceStep(c) ==
    \/ Open(c) \/ Leave(c) \/ Try(c)
    \/ \E a \in {"good", "bad", "failed"} : NodeAnswers(c, a)
    \/ \E s \in {"response", "499", "500", "503"} : Close(c, s)

ServiceNext == \E c \in Clients : ServiceStep(c)

ServiceSpec == ServiceInit /\ [][ServiceNext]_serviceVars
================================================================================
