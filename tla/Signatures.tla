----------------------------- MODULE Signatures -----------------------------
(***************************************************************************)
(* How punar-agentd recognises a process: the glob matcher, as the loop the *)
(* code runs, the three kinds of rules loaded from files, and the order in  *)
(* which they are tried.                                                    *)
(***************************************************************************)
EXTENDS Naturals, Sequences, FiniteSets

CONSTANTS
    Letters,        \* the characters of paths
    MaxPattern,     \* bound on the length of a pattern
    MaxText         \* bound on the length of a path

Strings(alphabet, n) == UNION {[1..k -> alphabet] : k \in 0..n}
Star == "*"
AnyOne == "?"
Patterns == Strings(Letters \cup {Star, AnyOne}, MaxPattern)
Texts == Strings(Letters, MaxText)

----------------------------------------------------------------------------
(* What is left to match: the place in the pattern and in the text, and the  *)
(* last star with the place in the text it has swallowed up to.             *)
GlobStart == [p |-> 1, t |-> 1, star |-> 0, mark |-> 1]

AtLetter(pattern, text, g) ==
    g.p <= Len(pattern) /\ (pattern[g.p] = AnyOne \/ pattern[g.p] = text[g.t])
AtStar(pattern, g) == g.p <= Len(pattern) /\ pattern[g.p] = Star

BacktrackOnce(g) == [g EXCEPT !.p = g.star + 1, !.t = @ + 1, !.star = 0]

(* Let the last star swallow one more character.                            *)
Backtrack(g) == [g EXCEPT !.p = g.star + 1, !.mark = @ + 1, !.t = g.mark + 1]

(* What is left of a pattern when the text is used up must be stars.        *)
OnlyStars(pattern, from) == \A i \in from..Len(pattern) : pattern[i] = Star

RECURSIVE GlobLoop(_, _, _)
(* The loop of glob_match, one character a turn.                            *)
GlobLoop(pattern, text, g) ==
    IF g.t > Len(text) THEN OnlyStars(pattern, g.p)
    ELSE IF AtLetter(pattern, text, g)
    THEN GlobLoop(pattern, text, [g EXCEPT !.p = @ + 1, !.t = @ + 1])
    ELSE IF AtStar(pattern, g)
    THEN GlobLoop(pattern, text, [g EXCEPT !.p = @ + 1, !.star = g.p, !.mark = g.t])
    ELSE g.star # 0 /\ GlobLoop(pattern, text, Backtrack(g))

(* glob_match *)
GlobMatch(pattern, text) == GlobLoop(pattern, text, GlobStart)

RECURSIVE Means(_, _)
(* What a pattern stands for: a star for any run of characters, a question  *)
(* mark for one, a letter for itself.                                       *)
Means(pattern, text) ==
    IF pattern = <<>> THEN text = <<>>
    ELSE IF Head(pattern) = Star
    THEN \E n \in 0..Len(text) : Means(Tail(pattern), SubSeq(text, n + 1, Len(text)))
    ELSE /\ text # <<>>
         /\ Head(pattern) \in {AnyOne, Head(text)}
         /\ Means(Tail(pattern), Tail(text))

----------------------------------------------------------------------------
(* Files.  An adapter definition that cannot be read is skipped with a       *)
(* warning, the file of suspected patterns is taken whole or not at all.     *)

(* load_adapters *)
LoadAdapters(files) == {f.rule : f \in {g \in files : g.readable}}

(* is_armed: a provenance rule needs both halves and says so.               *)
Armed(rule) == rule.require = "both" /\ rule.prefixes # {} /\ rule.tokens # {}

(* load_suspected: an inert rule stays, and matches nothing.                *)
LoadSuspected(file) ==
    IF file.readable THEN [globs |-> file.globs, provenance |-> file.provenance]
    ELSE [globs |-> {}, provenance |-> {}]

(* expand_home: the home of the owner of the process, and nothing without.  *)
ExpandHome(prefix, home) == IF prefix = "home" THEN {home} \ {"none"} ELSE {prefix}

(* matches_path: a directory that means unmanaged and a name that sounds    *)
(* like an agent.                                                           *)
MatchesPath(rule, path, home) ==
    /\ Armed(rule)
    /\ path.directory \in UNION {ExpandHome(prefix, home) : prefix \in rule.prefixes}
    /\ path.name \in rule.tokens

(* AdapterDefinition::matches and match_known: the command's name, or a glob. *)
MatchKnown(adapters, entry) ==
    \E a \in adapters : entry.comm \in a.comm \/ \E g \in a.globs : GlobMatch(g, entry.text)

(* match_suspected *)
MatchSuspected(globs, entry) == \E g \in globs : GlobMatch(g, entry.text)

(* match_provenance *)
MatchProvenance(rules, entry) ==
    \E r \in rules : MatchesPath(r, entry.path, entry.home)

(* The order of Detector::classify: a named agent, then a suspected one,    *)
(* then what comes from where agents do not come from.                      *)
Recognised(adapters, suspected, entry) ==
    CASE MatchKnown(adapters, entry) -> "observed"
      [] ~MatchKnown(adapters, entry) /\ MatchSuspected(suspected.globs, entry) -> "unknown"
      [] /\ ~MatchKnown(adapters, entry) /\ ~MatchSuspected(suspected.globs, entry)
         /\ MatchProvenance(suspected.provenance, entry) -> "unknown"
      [] OTHER -> "none"

-----------------------------------------------------------------------------
(* A question put to the rules: the files as they are and as they were meant, *)
(* and the process.                                                         *)
Mended(file) == [file EXCEPT !.readable = TRUE,
                            !.provenance = {[r EXCEPT !.require = "both"] : r \in @}]
Found(probe) == Recognised(LoadAdapters({probe.adapter}), LoadSuspected(probe.suspected), probe.entry)
FoundSoundly(probe) ==
    Recognised(LoadAdapters({[probe.adapter EXCEPT !.readable = TRUE]}),
               LoadSuspected(Mended(probe.suspected)), probe.entry)

(* The glob loop with its one remembered star accepts the paths the pattern  *)
(* stands for and no others (glob_match); and a file that cannot be read, a  *)
(* rule with a half missing or misspelled, or an owner without a home finds  *)
(* no process the sound rules would not find (load_suspected, is_armed,      *)
(* expand_home).                                                            *)
RulesMeanWhatTheySay(probe) ==
    /\ \A g \in probe.adapter.rule.globs \cup probe.suspected.globs :
         GlobMatch(g, probe.entry.text) <=> Means(g, probe.entry.text)
    /\ Found(probe) # "none" => FoundSoundly(probe) # "none"
=============================================================================
