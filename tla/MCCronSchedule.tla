--------------------------- MODULE MCCronSchedule ---------------------------
(* One schedule over four minutes, beside three services and a volume on two  *)
(* nodes, with room for a third: when a service runs, and where.  Each         *)
(* behaviour is one of the two, the other staying where it starts.             *)
EXTENDS CronSchedule, NodePlans, Sequences

CONSTANTS CpuOf1, CpuOf2

OneSchedule  == {{1, 2, 4}}
BothKinds    == {"cron", "backup"}

Both == {"cpu", "memory"}
R(c, m) == [r \in Both |-> IF r = "cpu" THEN c ELSE m]

Three == <<"api", "db", "web">>
Needs == [s \in {"api", "db", "web", "other"} |->
            CASE s = "api" -> R(2, 1) [] s = "db" -> R(1, 1)
              [] s = "web" -> R(1, 2) [] OTHER -> R(1, 2)]
Scaled == {[api |-> 1, db |-> 1, web |-> 1], [api |-> 2, db |-> 1, web |-> 1],
           [api |-> 1, db |-> 1, web |-> 2]}
Added == <<3>>
Gives == [n \in Standing |-> IF n = 1 THEN R(CpuOf1, 6) ELSE R(CpuOf2, 6)]
Table == {R(4, 4), R(6, 6)}

VARIABLE part

InitAll == /\ part \in {"fires", "plans"} /\ Init /\ Pool!Init
           /\ part = "plans" => kind = "cron"

FireStep == part = "fires" /\ Next /\ UNCHANGED <<part, planVars>>
PlanStep == part = "plans" /\ Pool!Next /\ UNCHANGED <<part, vars>>

\* When all commands have been run, nothing need happen.
PlansRest == part = "plans" /\ UNCHANGED <<part, vars, planVars>>

NextAll == FireStep \/ PlanStep \/ PlansRest

\* FairSpec of CronSchedule, where its part moves
SpecAll == /\ InitAll /\ [][NextAll]_<<part, vars, planVars>>
           /\ WF_vars(part = "fires" /\ Agent)
=============================================================================
