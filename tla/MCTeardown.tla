---- MODULE MCTeardown ----
\* The project "my" and its environment "app", and a project called "my-app":
\* the two have one owner name.
EXTENDS Teardown

CONSTANTS web, app, other, my, myapp, oWeb, oApp

MCProjectOf == [f \in Footprints |-> IF f = other THEN myapp ELSE my]
MCBaseOf    == [f \in Footprints |-> IF f = app THEN web ELSE f]
MCOwnerOf   == [f \in Footprints |->
                  IF f = web THEN oWeb ELSE oApp]
====
