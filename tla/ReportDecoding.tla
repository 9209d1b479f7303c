--------------------------- MODULE ReportDecoding ---------------------------
(***************************************************************************)
(* The decoder of one page of a character's reports: which fights become   *)
(* kills and wipes, which impossible times it leaves out, at what shape it *)
(* gives up, and the time each report covers.  Fight by fight, in the      *)
(* page's order.                                                           *)
(*                                                                         *)
(* A fight is a boss (0 is a trash pull), whether it was a kill, whether   *)
(* it is a Mythic one with the character in it, its end (0 is impossible), *)
(* whether it was in a dungeon, and its form: idless without an id or an   *)
(* encounter, untyped with a field of the wrong type, noname without the   *)
(* boss's name.                                                            *)
(***************************************************************************)
EXTENDS Naturals, Sequences, FiniteSets, FiniteSetsExt, SequencesExt

CONSTANTS
    Limits,      \* most fights of each report of the page
    Bosses,
    Start,       \* start times of the reports, newest first
    Ends,        \* end times within a report
    MaxDate      \* MAX_DATE_MILLISECONDS

DecodingAssumption ==
    /\ Bosses \subseteq Nat /\ 0 \in Bosses
    /\ Limits \in Seq(Nat) /\ Start \in [DOMAIN Limits -> Nat]
    /\ Ends \subseteq Nat /\ 0 \in Ends /\ MaxDate \in Nat

VARIABLES
    page,       \* the fights of each report as far as the decoder has read them
    kills, wipes,   \* the fights kept, each <<report, fight>>
    omitted,    \* reports with a fight left out for its time
    result      \* pending, evidence, or drift

vars == <<page, kills, wipes, omitted, result>>

(* Fights with at most one thing wrong; a dungeon's boss may be unnamed.   *)
Odd(f) == Cardinality({p \in {<<"form", f.form # "ok">>, <<"mine", ~f.mine>>,
                              <<"end", f.end # 1>>, <<"dungeon", f.dungeon>>} : p[2]})
Fights ==
    {f \in [form : {"ok", "idless", "untyped", "noname"}, boss : Bosses, kill : BOOLEAN,
            mine : BOOLEAN, end : Ends, dungeon : BOOLEAN] :
        Odd(f) <= 1 \/ (Odd(f) = 2 /\ f.dungeon /\ f.form = "noname")}

Positions(pg) == UNION {{<<i, j>> : j \in DOMAIN pg[i]} : i \in DOMAIN pg}
Fight(q) == page[q[1]][q[2]]
At(i, f) == Start[i] + f.end

(* The next fight of the page, of report i or of a later one.              *)
Reads(i, f) ==
    /\ result = "pending"
    /\ Len(page[i]) < Limits[i] /\ \A j \in DOMAIN page : j > i => page[j] = <<>>
    /\ page' = [page EXCEPT ![i] = Append(@, f)]

(* The loop's conditions, in its order.                                    *)
Breaks(f) == f.form = "idless" \/ (f.boss # 0 /\ f.form = "untyped")
Passed(f) == f.boss # 0 /\ f.mine
TimeOf(f) == f.end # 0
Placed(f) == ~f.dungeon

(* schemaDrift: what was decoded before is kept beside the limitation.     *)
Drift(i, f) ==
    /\ Reads(i, f)
    /\ Breaks(f) \/ (Passed(f) /\ TimeOf(f) /\ Placed(f) /\ f.form = "noname")
    /\ result' = "drift"
    /\ UNCHANGED <<kills, wipes, omitted>>

Skips(f) == ~Passed(f) \/ (TimeOf(f) /\ ~Placed(f))

Skip(i, f) ==
    /\ Reads(i, f) /\ ~Breaks(f) /\ Skips(f)
    /\ UNCHANGED <<kills, wipes, omitted, result>>

Omit(i, f) ==
    /\ Reads(i, f) /\ ~Breaks(f) /\ Passed(f)
    /\ ~TimeOf(f) \/ (Placed(f) /\ f.form # "noname" /\ At(i, f) > MaxDate)
    /\ omitted' = omitted \cup {i}
    /\ UNCHANGED <<kills, wipes, result>>

Keep(i, f) ==
    /\ Reads(i, f) /\ ~Breaks(f) /\ Passed(f) /\ TimeOf(f) /\ Placed(f)
    /\ f.form # "noname" /\ At(i, f) <= MaxDate
    /\ LET q == <<i, Len(page[i]) + 1>>
       IN /\ kills' = IF f.kill THEN kills \cup {q} ELSE kills
          /\ wipes' = IF f.kill THEN wipes ELSE wipes \cup {q}
    /\ UNCHANGED <<omitted, result>>

FilteredWipes ==
    {w \in wipes : ~\E k \in kills : k[1] = w[1] /\ Fight(k).boss = Fight(w).boss}

Finish ==
    /\ result = "pending"
    /\ result' = "evidence" /\ wipes' = FilteredWipes
    /\ UNCHANGED <<page, kills, omitted>>

(* reportSpans: the time each report covers, but for those with a fight    *)
(* left out for its time.                                                  *)
Spans ==
    [i \in DOMAIN page \ omitted |->
        <<Start[i], Max({Start[i]} \cup {At(i, f) : f \in {g \in ToSet(page[i]) : g.end # 0}})>>]

Init ==
    /\ page = [i \in DOMAIN Limits |-> <<>>]
    /\ kills = {} /\ wipes = {} /\ omitted = {} /\ result = "pending"

Next ==
    \/ \E i \in DOMAIN Limits, f \in Fights :
           Drift(i, f) \/ Skip(i, f) \/ Omit(i, f) \/ Keep(i, f)
    \/ Finish

Spec == Init /\ [][Next]_vars
-----------------------------------------------------------------------------
Mine == {q \in Positions(page) : Fight(q).mine /\ Fight(q).boss # 0 /\ ~Fight(q).dungeon}

(* A page that decodes gives every raid fight of the character a fate: it  *)
(* is a kill, a wipe not beside a kill of its boss, or its report is named *)
(* among those with an impossible time.                                    *)
EveryFightHasAFate ==
    result = "evidence" =>
        \A q \in Mine :
            \/ q \in kills /\ Fight(q).kill
            \/ q \in wipes
            \/ q[1] \in omitted
            \/ \E k \in kills : k[1] = q[1] /\ Fight(k).boss = Fight(q).boss

(* A fight left out for its time is never ruled out as already decoded:    *)
(* its report covers no time, so attendance still looks for its kills.     *)
OmittedIsNotCovered ==
    result = "evidence" =>
        \A q \in Mine : Fight(q).end = 0 \/ At(q[1], Fight(q)) > MaxDate => q[1] \notin DOMAIN Spans

(* No wipe is reported of a boss killed in the same report.                *)
NoWipeBesideAKill ==
    result # "pending" =>
        ~\E w \in wipes, k \in kills : k[1] = w[1] /\ Fight(k).boss = Fight(w).boss

(* The same of a page that decodes to its end.                             *)
NoWipeBesideAKillWhenClean == result = "evidence" => NoWipeBesideAKill
=============================================================================
