------------------------------- MODULE SimTUI -------------------------------
(***************************************************************************)
(* The terminal front-end of the simulation: three pages of a form, the    *)
(* fetch of the players' rates, the simulation and its result.  One        *)
(* goroutine handles keys and messages; the commands it issues run beside  *)
(* it, and their messages arrive in whatever state it has reached.         *)
(*                                                                         *)
(* Source: tennis/cmd/tui (model.go, sim.go, players.go).  The text fields *)
(* are the library's: an edit may leave any text in the focused one.       *)
(***************************************************************************)
EXTENDS Integers, Sequences, FiniteSets

CONSTANTS
  Names,    \* texts of a name field that are not blank
  Counts,   \* whole numbers above 0 a user may ask to simulate
  MaxLoads  \* bound on the name lists being loaded at once

ASSUME TUIAssumption ==
  /\ "" \notin Names
  /\ Counts \subseteq Nat \ {0}
  /\ MaxLoads \in Nat

VARIABLES
  mode,        \* model.state, and "quit" once the program has ended
  page,
  focus,       \* the focused field of the page
  form,        \* the texts of the fields and the positions of the selectors
  chosen,      \* what the pages submitted: playerA, playerB, format, surface, alpha, sims
  theme,
  errMsg,      \* is a validation message shown?
  namesLoaded,
  rates,       \* model.rates: whose rates, on which surface
  result,      \* model.result: the inputs it was computed from
  loads,       \* loadPlayerNamesCmd running or its message under way
  runs         \* the same of fetchRatesCmd and runSimCmd

formVars == <<page, focus, form, chosen, theme, errMsg>>
vars == <<mode, page, focus, form, chosen, theme, errMsg, namesLoaded, rates,
          result, loads, runs>>

surfaceChoices == <<"Hard", "Clay", "Grass">>
Surfaces == {"Hard", "Clay", "Grass"}
formatChoices == <<"Best of 3", "Best of 5">>
Formats == {"Best of 3", "Best of 5"}

\* A count of 0 stands for a text that is no whole number above 0.
Forms == [a : Names \cup {""}, b : Names \cup {""}, sims : Counts \cup {0},
          surfaceIdx : 1 .. 3, formatIdx : 1 .. 2]
None == "none"
Inputs == [a : Names \cup {None}, b : Names \cup {None}, format : Formats \cup {None},
           surface : Surfaces \cup {None}, alpha : Surfaces \cup {None}, sims : Counts \cup {0}]
NoInputs == [a |-> None, b |-> None, format |-> None, surface |-> None,
             alpha |-> None, sims |-> 0]
Rates == [a : Names, b : Names, surface : Surfaces]
NoRates == [a |-> None, b |-> None, surface |-> None]

\* A projection: the inputs of runSimCmd and the rates it was given.
Projections == [inputs : Inputs, rates : Rates]
NoResult == [inputs |-> NoInputs, rates |-> NoRates]
Fetches == [cmd : {"fetch"}, of : Rates]
Sims == [cmd : {"sim"}, of : Projections]

TypeOK ==
  /\ mode \in {"form", "loading", "results", "error", "quit"}
  /\ page \in {"surface", "players", "metrics"}
  /\ focus \in (IF page = "players" THEN 0 .. 2 ELSE {0})
  /\ form \in Forms
  /\ chosen \in Inputs
  /\ theme \in Surfaces
  /\ errMsg \in BOOLEAN
  /\ namesLoaded \in BOOLEAN
  /\ rates \in Rates \cup {NoRates}
  /\ result \in Projections \cup {NoResult}
  /\ loads \in 0 .. MaxLoads
  /\ runs \subseteq Fetches \cup Sims

-----------------------------------------------------------------------------
Init ==
  /\ mode = "form" /\ page = "surface" /\ focus = 0
  /\ form = [a |-> "", b |-> "", sims |-> 0, surfaceIdx |-> 1, formatIdx |-> 1]
  /\ chosen = NoInputs
  /\ theme = "Hard" /\ errMsg = FALSE /\ namesLoaded = FALSE
  /\ rates = NoRates /\ result = NoResult
  /\ loads = 0 /\ runs = {}

-----------------------------------------------------------------------------
(* The form.                                                                *)

GoTo(p) == page' = p /\ focus' = 0 /\ errMsg' = FALSE

Invalid == errMsg' = TRUE /\ UNCHANGED <<page, focus>>

\* Any key on the surface page sets the surface and the theme to the highlighted.
Highlight ==
  /\ mode = "form" /\ page = "surface"
  /\ \E i \in {form.surfaceIdx - 1, form.surfaceIdx, form.surfaceIdx + 1} \cap (1 .. 3) :
       /\ form' = [form EXCEPT !.surfaceIdx = i]
       /\ chosen' = [chosen EXCEPT !.surface = surfaceChoices[i]]
       /\ theme' = surfaceChoices[i]
  /\ UNCHANGED <<mode, page, focus, errMsg, namesLoaded, rates, result, loads, runs>>

SubmitSurface ==
  /\ mode = "form" /\ page = "surface"
  /\ chosen' = [chosen EXCEPT !.surface = surfaceChoices[form.surfaceIdx]]
  /\ theme' = surfaceChoices[form.surfaceIdx]
  /\ GoTo("players")
  /\ IF namesLoaded
       THEN loads' = loads
       ELSE loads < MaxLoads /\ loads' = loads + 1
  /\ UNCHANGED <<mode, form, namesLoaded, rates, result, runs>>

SubmitPlayers ==
  /\ mode = "form" /\ page = "players"
  /\ \/ /\ form.a = "" \/ form.b = ""
        /\ Invalid
        /\ UNCHANGED chosen
     \/ /\ form.a # "" /\ form.b # ""
        /\ chosen' = [chosen EXCEPT !.a = form.a, !.b = form.b,
                                    !.format = formatChoices[form.formatIdx]]
        /\ GoTo("metrics")
  /\ UNCHANGED <<mode, form, theme, namesLoaded, rates, result, loads, runs>>

\* startSim: the page, its focus and a message that was shown stay as they are.
StartSim(c) ==
  /\ chosen' = [c EXCEPT !.alpha = c.surface]
  /\ mode' = "loading"
  /\ runs' = runs \cup {[cmd |-> "fetch", of |-> [a |-> c.a, b |-> c.b, surface |-> c.surface]]}

SubmitMetrics ==
  /\ mode = "form" /\ page = "metrics"
  /\ \/ form.sims = 0 /\ Invalid /\ UNCHANGED <<mode, chosen, runs>>
     \/ /\ form.sims # 0
        /\ StartSim([chosen EXCEPT !.sims = form.sims])
        /\ UNCHANGED <<page, focus, errMsg>>
  /\ UNCHANGED <<form, theme, namesLoaded, rates, result, loads>>

\* Fault: Esc also leaves a run that is loading, whose command goes on.
PrevPageOrCancel ==
  /\ mode \in {"form", "loading"} /\ page # "surface"
  /\ mode' = "form"
  /\ GoTo(IF page = "metrics" THEN "players" ELSE "surface")
  /\ UNCHANGED <<form, chosen, theme, namesLoaded, rates, result, loads, runs>>

PrevPage ==
  /\ mode = "form" /\ page # "surface"
  /\ GoTo(IF page = "metrics" THEN "players" ELSE "surface")
  /\ UNCHANGED <<mode, form, chosen, theme, namesLoaded, rates, result, loads, runs>>

FocusCount == IF page = "players" THEN 3 ELSE 1

\* Fault: the focus runs over the end of the page.
MoveFocusOver ==
  /\ mode = "form" /\ page # "surface"
  /\ focus' = (focus + 1) % 4 /\ errMsg' = FALSE
  /\ UNCHANGED <<mode, page, form, chosen, theme, namesLoaded, rates, result, loads, runs>>

MoveFocus ==
  /\ mode = "form" /\ page # "surface"
  /\ \E step \in {1, FocusCount - 1} : focus' = (focus + step) % FocusCount
  /\ errMsg' = FALSE
  /\ UNCHANGED <<mode, page, form, chosen, theme, namesLoaded, rates, result, loads, runs>>

\* Two formats: forward and backward are the same.
ChangeSelector ==
  /\ mode = "form" /\ page = "players" /\ focus = 2
  /\ form' = [form EXCEPT !.formatIdx = 3 - @]
  /\ UNCHANGED <<mode, page, focus, chosen, theme, errMsg, namesLoaded, rates, result, loads, runs>>

\* A key, or a completed suggestion, in the focused text field.
ForwardToFocused ==
  /\ mode = "form"
  /\ \/ page = "players" /\ focus = 0 /\ \E t \in Names \cup {""} : form' = [form EXCEPT !.a = t]
     \/ page = "players" /\ focus = 1 /\ \E t \in Names \cup {""} : form' = [form EXCEPT !.b = t]
     \/ page = "metrics" /\ \E n \in Counts \cup {0} : form' = [form EXCEPT !.sims = n]
  /\ UNCHANGED <<mode, page, focus, chosen, theme, errMsg, namesLoaded, rates, result, loads, runs>>

-----------------------------------------------------------------------------
(* Messages of the commands.  A message in a state that does not expect it  *)
(* is dropped.                                                              *)

NamesArrive ==
  /\ mode # "quit" /\ loads > 0
  /\ loads' = loads - 1
  /\ namesLoaded' = (namesLoaded \/ mode = "form")
  /\ UNCHANGED <<mode, formVars, rates, result, runs>>

\* simInputs reads the model as it is when the rates arrive.
RatesArrive(c) ==
  /\ mode # "quit" /\ c \in runs /\ c.cmd = "fetch"
  /\ IF mode = "loading"
       THEN /\ rates' = c.of
            /\ runs' = (runs \ {c}) \cup {[cmd |-> "sim", of |-> [inputs |-> chosen, rates |-> c.of]]}
       ELSE runs' = runs \ {c} /\ UNCHANGED rates
  /\ UNCHANGED <<mode, formVars, namesLoaded, result, loads>>

ResultArrives(c) ==
  /\ mode # "quit" /\ c \in runs /\ c.cmd = "sim"
  /\ runs' = runs \ {c}
  /\ IF mode = "loading"
       THEN mode' = "results" /\ result' = c.of
       ELSE UNCHANGED <<mode, result>>
  /\ UNCHANGED <<formVars, namesLoaded, rates, loads>>

\* Fault: an error is shown on the form, which is not there.
RunFailsSilently(c) ==
  /\ mode # "quit" /\ c \in runs
  /\ runs' = runs \ {c} /\ errMsg' = TRUE
  /\ UNCHANGED <<mode, page, focus, form, chosen, theme, namesLoaded, rates, result, loads>>

\* No page of a player, no season, rates that are no probabilities.
RunFails(c) ==
  /\ mode # "quit" /\ c \in runs
  /\ runs' = runs \ {c}
  /\ mode' = (IF mode = "loading" THEN "error" ELSE mode)
  /\ UNCHANGED <<formVars, namesLoaded, rates, result, loads>>

-----------------------------------------------------------------------------
\* Fault: a restart takes the user back to the players.
RestartOnPlayers ==
  /\ mode \in {"results", "error"}
  /\ mode' = "form" /\ GoTo("players")
  /\ result' = NoResult
  /\ UNCHANGED <<form, chosen, theme, namesLoaded, rates, loads, runs>>

Restart ==
  /\ mode \in {"results", "error"}
  /\ mode' = "form" /\ GoTo("surface")
  /\ result' = NoResult
  /\ UNCHANGED <<form, chosen, theme, namesLoaded, rates, loads, runs>>

\* Ctrl+C anywhere, q and Esc behind the result.
Quit ==
  /\ mode # "quit" /\ mode' = "quit"
  /\ UNCHANGED <<formVars, namesLoaded, rates, result, loads, runs>>

Over == mode = "quit" /\ UNCHANGED vars

Next ==
  \/ Highlight \/ SubmitSurface \/ SubmitPlayers \/ SubmitMetrics
  \/ PrevPage \/ MoveFocus \/ ChangeSelector \/ ForwardToFocused
  \/ NamesArrive
  \/ \E c \in runs : RatesArrive(c) \/ ResultArrives(c) \/ RunFails(c)
  \/ Restart \/ Quit \/ Over

\* A command ends (its requests time out) and the loop takes its message.
RunEnds == \E c \in runs : RatesArrive(c) \/ ResultArrives(c) \/ RunFails(c)
Spec == Init /\ [][Next]_vars /\ WF_vars(RunEnds)

-----------------------------------------------------------------------------
(* Properties.                                                              *)

FormInputs ==
  [a |-> form.a, b |-> form.b, format |-> formatChoices[form.formatIdx],
   surface |-> surfaceChoices[form.surfaceIdx],
   alpha |-> surfaceChoices[form.surfaceIdx], sims |-> form.sims]

\* The result shown is that of the form as it stands: its players, surface, format and
\* count went into it, with the rates of just these players on this surface, whatever pages
\* were left and entered again, edited and restarted before, and the colours are the surface's.
ResultIsOfTheForm ==
  /\ theme = surfaceChoices[form.surfaceIdx]
  /\ mode = "results" =>
       /\ result.inputs = FormInputs
       /\ result.rates = [a |-> form.a, b |-> form.b, surface |-> FormInputs.surface]

\* While it loads, the program waits for one command, and for none at any other time: no
\* message of an earlier run can be taken for the present one, and loading cannot get stuck.
\* On the pages behind the surface the names are there or on their way, although a list that
\* arrives while loading is dropped.
OneRunAtATime ==
  /\ mode = "loading" => \E c \in Fetches \cup Sims : runs = {c}
  /\ mode \in {"form", "results", "error"} => runs = {}
  /\ mode = "form" /\ page # "surface" => namesLoaded \/ loads > 0

\* Loading ends in a result or an error, unless the user quits.
LoadingEnds == mode = "loading" ~> mode \in {"results", "error", "quit"}
=============================================================================
