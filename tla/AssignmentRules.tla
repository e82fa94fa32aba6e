-------------------------- MODULE AssignmentRules --------------------------
(***************************************************************************)
(* What becomes of the files of a torrent assigned to a show               *)
(* (service/assignment_rules.go and assignment_recheck.go,                 *)
(* identify/resolver.go): the proposals a reading of the files gives, the  *)
(* AI's answers merged into it, what a settled job waits for, and what     *)
(* Apply writes.  Files are videos, numbered in the torrent's order.       *)
(*                                                                         *)
(* A reading gives each file an episode (or NoEpisode, or Extra) and how   *)
(* sure it is: "rules" or "ai" when the rules or the AI are highly         *)
(* confident, else "no".                                                   *)
(***************************************************************************)
EXTENDS Naturals, FiniteSets

CONSTANTS
  Torrents,   \* info hashes
  FilesOf,    \* the files of each torrent
  Episodes,   \* episodes of the title
  NoEpisode, Extra

ASSUME RulesAssumption ==
  /\ FilesOf \in [Torrents -> SUBSET Nat]
  /\ NoEpisode \notin Episodes /\ Extra \notin Episodes /\ NoEpisode # Extra

Reading == [to : Episodes \cup {NoEpisode, Extra}, sure : {"rules", "ai", "no"}]
Decision == {"accepted", "pending", "ignored"}
Proposal == [to : Episodes \cup {NoEpisode}, suggested : Episodes \cup {NoEpisode},
             sure : {"rules", "ai", "no"}, decision : Decision,
             default : Decision, decided : BOOLEAN]
Row == [item : Episodes, torrent : Torrents, file : Nat]

\* The AI's answer for a file: none, or an episode or an extra.
NoAnswer == [to |-> NoEpisode, conf |-> "low"]
Answer == {NoAnswer} \cup [to : Episodes \cup {Extra}, conf : {"high", "medium", "low"}]

-----------------------------------------------------------------------------
(* The proposals of a reading.                                             *)

Shares(r, f) == \E g \in DOMAIN r : g # f /\ r[g].to = r[f].to

(* DefaultDecision of the group showDrafts puts the file in.               *)
DefaultDecision(r, f) ==
  IF r[f].to = Extra THEN "ignored"
  ELSE IF r[f].to = NoEpisode \/ r[f].sure = "no" \/ Shares(r, f) THEN "pending"
  ELSE "accepted"

Drafts(r) ==
  [f \in DOMAIN r |->
    LET to == IF r[f].to = Extra THEN NoEpisode ELSE r[f].to
        default == DefaultDecision(r, f)
    IN [to |-> to, suggested |-> to,
        sure |-> IF to = NoEpisode THEN "no" ELSE r[f].sure,
        decision |-> default, default |-> default, decided |-> FALSE]]

(* ai.Scope: the files the first AI run is asked about.                    *)
FirstScope(r, all) ==
  {f \in DOMAIN r : r[f].to # Extra
     /\ (all \/ r[f].to = NoEpisode \/ r[f].sure = "no" \/ Shares(r, f))}

-----------------------------------------------------------------------------
(* What a job's proposals ps still need.                                   *)

Maps(p) == p.to # NoEpisode
High(p) == Maps(p) /\ p.to = p.suggested /\ p.sure # "no"

Conflicts(ps) ==
  {f \in DOMAIN ps : Maps(ps[f]) /\ ps[f].decision # "ignored" /\
     \E g \in DOMAIN ps : g # f /\ ps[g].to = ps[f].to /\ ps[g].decision # "ignored"}

Pending(ps) == {f \in DOMAIN ps : Maps(ps[f]) /\ ps[f].decision = "pending"}

settledStatus(ps) ==
  IF Pending(ps) \cup Conflicts(ps) # {} THEN "needs_review" ELSE "ready"

(* autoApplies, for the active rows refs.                                  *)
autoApplies(h, ps, refs) ==
  LET kept == {f \in DOMAIN ps : ps[f].decision # "ignored"}
  IN /\ kept # {} /\ Pending(ps) = {} /\ Conflicts(ps) = {}
     /\ \A f \in kept : High(ps[f]) /\
          \A r \in refs : r.item = ps[f].to => r.torrent = h /\ r.file = f

(* planApply: each episode gets the first file accepted for it.            *)
planApply(h, ps) ==
  {[item |-> ps[f].to, torrent |-> h, file |-> f] :
     f \in {f \in DOMAIN ps : Maps(ps[f]) /\ ps[f].decision = "accepted" /\
              \A g \in DOMAIN ps : (ps[g].to = ps[f].to /\ ps[g].decision = "accepted") => f <= g}}

(* UserDecided of a file the user's change leaves as p.                    *)
Decided(p) == [p EXCEPT !.decided = ~(p.to = p.suggested /\ p.decision = p.default)]

legacyAcceptShow(ps) ==
  [f \in DOMAIN ps |->
     IF Maps(ps[f]) /\ f \notin Conflicts(ps) /\ ps[f].decision # "accepted"
     THEN Decided([ps[f] EXCEPT !.decision = "accepted"]) ELSE ps[f]]

-----------------------------------------------------------------------------
(* The AI's answers.                                                       *)

Firm(a) == a # NoAnswer /\ a.conf \in {"high", "medium"}

Disputes(r, answers) ==
  {f \in DOMAIN answers : r[f].sure = "rules" /\ Firm(answers[f]) /\ answers[f].to # r[f].to}

Agreements(r, answers) ==
  {f \in DOMAIN answers : r[f].sure = "rules" /\ Firm(answers[f]) /\ answers[f].to = r[f].to}

(* mergeAnswers: an answer never moves a file the rules are sure of, nor   *)
(* takes its episode; one that disputes it makes it unsure.                *)
mergeAnswers(r, answers) ==
  LET taken(f) == \E g \in DOMAIN r : g # f /\ r[g].sure = "rules" /\ r[g].to = answers[f].to
  IN [f \in DOMAIN r |->
       IF f \notin DOMAIN answers THEN r[f]
       ELSE IF f \in Disputes(r, answers) THEN [r[f] EXCEPT !.sure = "no"]
       ELSE IF r[f].sure = "rules" \/ answers[f] = NoAnswer \/ taken(f) THEN r[f]
       ELSE [to |-> answers[f].to,
             sure |-> IF answers[f].to # Extra /\ answers[f].conf = "high" THEN "ai" ELSE "no"]]

\* Bug: the AI's answer is also taken for files the user decided.
BugMergeFirstRun(ps, drafts) == drafts

mergeFirstRun(ps, drafts) ==
  [f \in DOMAIN ps |->
     IF ps[f].decided \/ ps[f].decision # ps[f].default THEN ps[f] ELSE drafts[f]]

recheckScope(ps, all) ==
  {f \in DOMAIN ps : ~ps[f].decided /\ ps[f].default # "ignored" /\
     (all \/ ps[f].decision = "pending" \/ f \in Conflicts(ps))}

(* currentAnswers: the reading a re-check starts from; fresh are the files *)
(* the rules, run again, are sure of where they are.                       *)
currentAnswers(ps, fresh) ==
  [f \in DOMAIN ps |->
     IF ps[f].default = "ignored" THEN [to |-> Extra, sure |-> "no"]
     ELSE [to |-> ps[f].to,
           sure |-> IF f \in fresh \/ (High(ps[f]) /\ ps[f].sure = "rules")
                    THEN "rules" ELSE "no"]]

(* recheckChanges, for the proposals ps of now, the reading r the AI was   *)
(* shown and its answers.                                                  *)
recheckChanges(ps, r, answers, all) ==
  LET after == mergeAnswers(r, answers)
      to(f) == IF after[f].to = Extra THEN NoEpisode ELSE after[f].to
      touched == {f \in recheckScope(ps, all) :
        /\ r[f] # after[f] \/ f \in Agreements(r, answers)
        /\ ~(to(f) = NoEpisode /\ ps[f].decision = "accepted")}
  IN [f \in DOMAIN ps |->
       IF f \notin touched THEN ps[f]
       ELSE [ps[f] EXCEPT
              !.to = to(f), !.suggested = to(f),
              !.sure = IF to(f) = NoEpisode THEN "no" ELSE after[f].sure,
              !.decision = IF f \in Disputes(r, answers) /\ @ = "accepted" /\ @ = ps[f].default
                           THEN "pending" ELSE @]]
=============================================================================
