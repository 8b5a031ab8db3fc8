-------------------------------- MODULE Batch --------------------------------
(***************************************************************************)
(* What one action on many servers promises to whoever asks for it,        *)
(* however it is carried out: every server gets one result, which is       *)
(* final; the answer comes when all have theirs; and a page shows results  *)
(* of what it asked for last, each as it is, and with the answer all of    *)
(* them.                                                                   *)
(***************************************************************************)
CONSTANTS
  Servers,
  Runs,      \* actions that may be asked for
  NoRun

VARIABLES
  asked,     \* run -> the servers it is about, none before it is asked for
  result,    \* run -> server -> "none", "ok" or "error"
  answer,    \* run -> "none", "results" or "error"
  page       \* the page: the run it asked for, what it was told and shows

batchVars == <<asked, result, answer, page>>

Blank == [s \in Servers |-> "none"]
NewPage == [of |-> NoRun, told |-> "nothing", shown |-> Blank]

BatchInit ==
  /\ asked = [r \in Runs |-> {}]
  /\ result = [r \in Runs |-> Blank]
  /\ answer = [r \in Runs |-> "none"]
  /\ page = NewPage

\* The page has asked and was not answered yet.
Waiting == page.of # NoRun /\ page.told = "nothing"

Ask(r) ==
  /\ ~ Waiting /\ asked[r] = {}
  /\ page' = [NewPage EXCEPT !.of = r]
  /\ \E S \in (SUBSET Servers) \ {{}} : asked' = [asked EXCEPT ![r] = S]
  /\ UNCHANGED <<result, answer>>

\* One result for each server, and that for good.
Settle(r, s) ==
  /\ s \in asked[r] /\ result[r][s] = "none" /\ answer[r] = "none"
  /\ result'[r][s] \in {"ok", "error"}
  /\ result' = [result EXCEPT ![r][s] = result'[r][s]]
  /\ UNCHANGED <<asked, answer, page>>

Answer(r) ==
  /\ asked[r] # {} /\ answer[r] = "none"
  /\ \A s \in asked[r] : result[r][s] # "none"
  /\ \E x \in {"results", "error"} : answer' = [answer EXCEPT ![r] = x]
  /\ UNCHANGED <<asked, result, page>>

\* What becomes of the page changes nothing but the page.
Show(s) ==
  /\ Waiting /\ result[page.of][s] # "none"
  /\ page' = [page EXCEPT !.shown[s] = result[page.of][s]]

Tell ==
  /\ Waiting /\ answer[page.of] # "none"
  /\ page' = [page EXCEPT
       !.told = answer[page.of],
       !.shown = IF answer[page.of] = "results" THEN result[page.of] ELSE @]

\* Another page takes its place.
Leave == page' = NewPage

PageStep ==
  /\ UNCHANGED <<asked, result, answer>>
  /\ Tell \/ Leave \/ \E s \in Servers : Show(s)

BatchNext ==
  \/ PageStep
  \/ \E r \in Runs : Ask(r) \/ Answer(r)
  \/ \E r \in Runs, s \in Servers : Settle(r, s)

BatchSpec == BatchInit /\ [][BatchNext]_batchVars
=============================================================================
