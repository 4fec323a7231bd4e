---------------------------- MODULE SimTUIProofs ----------------------------
(***************************************************************************)
(* The terminal front-end, for any players, counts and name lists: its     *)
(* types, that a result shown is the form's, and that it waits for one     *)
(* command at a time.                                                      *)
(***************************************************************************)
EXTENDS SimTUI, TLAPS

RatesOfForm == [a |-> form.a, b |-> form.b, surface |-> FormInputs.surface]
FetchOfForm == [cmd |-> "fetch", of |-> RatesOfForm]
SimOfForm == [cmd |-> "sim", of |-> [inputs |-> FormInputs, rates |-> RatesOfForm]]

\* What the pages before this one submitted is still what their fields say.
SubmittedInv ==
  /\ theme = surfaceChoices[form.surfaceIdx]
  /\ page # "surface" => chosen.surface = theme
  /\ page = "metrics" =>
       /\ form.a # "" /\ form.b # ""
       /\ chosen.a = form.a /\ chosen.b = form.b
       /\ chosen.format = formatChoices[form.formatIdx]

\* A run is that of the form, which stands still until it ends.
RunInv ==
  /\ mode \in {"loading", "results", "error"} => page = "metrics" /\ chosen = FormInputs
  /\ mode = "loading" => runs = {FetchOfForm} \/ runs = {SimOfForm}
  /\ mode \in {"form", "results", "error"} => runs = {}
  /\ mode = "results" => result = SimOfForm.of

NamesInv == mode = "form" /\ page # "surface" => namesLoaded \/ loads > 0

TUIInv == TypeOK /\ SubmittedInv /\ RunInv /\ NamesInv

-----------------------------------------------------------------------------
(* Types of the selectors and of what a page submits.                       *)

LEMMA Selectors ==
  /\ \A i \in 1 .. 3 : surfaceChoices[i] \in Surfaces
  /\ \A i \in 1 .. 2 : formatChoices[i] \in Formats
  BY DEF surfaceChoices, formatChoices, Surfaces, Formats

\* The fields of the form have their types, and so do the inputs read from them.
LEMMA FormTypes ==
  ASSUME TypeOK
  PROVE  /\ form.a \in Names \cup {""} /\ form.b \in Names \cup {""}
         /\ form.sims \in Counts \cup {0}
         /\ form.surfaceIdx \in 1 .. 3 /\ form.formatIdx \in 1 .. 2
         /\ surfaceChoices[form.surfaceIdx] \in Surfaces
         /\ formatChoices[form.formatIdx] \in Formats
<1>1. form \in Forms
  BY DEF TypeOK
<1> QED
  BY <1>1, Selectors DEF Forms

LEMMA InputsTypes ==
  ASSUME TypeOK
  PROVE  /\ chosen \in Inputs
         /\ chosen.a \in Names \cup {None} /\ chosen.b \in Names \cup {None}
         /\ chosen.format \in Formats \cup {None}
         /\ chosen.surface \in Surfaces \cup {None}
         /\ chosen.alpha \in Surfaces \cup {None}
         /\ chosen.sims \in Counts \cup {0}
  BY DEF TypeOK, Inputs

\* A count of model.result or of a command is compared field by field.
LEMMA InputsEqual ==
  ASSUME NEW x \in Inputs, NEW y \in Inputs,
         x.a = y.a, x.b = y.b, x.format = y.format, x.surface = y.surface,
         x.alpha = y.alpha, x.sims = y.sims
  PROVE  x = y
  BY DEF Inputs

LEMMA InitInv == Init => TUIInv
<1> SUFFICES ASSUME Init PROVE TUIInv
  OBVIOUS
<1>1. TypeOK
  <2>1. form \in Forms
    <3>1. form = [a |-> "", b |-> "", sims |-> 0, surfaceIdx |-> 1, formatIdx |-> 1]
      BY DEF Init
    <3>2. /\ "" \in Names \cup {""} /\ 0 \in Counts \cup {0}
          /\ 1 \in 1 .. 3 /\ 1 \in 1 .. 2
      OBVIOUS
    <3> QED BY <3>1, <3>2 DEF Forms
  <2>2. chosen \in Inputs
    BY DEF Init, NoInputs, Inputs
  <2>3. theme \in Surfaces
    BY DEF Init, Surfaces
  <2>4. loads \in 0 .. MaxLoads
    <3>1. loads = 0 /\ MaxLoads \in Nat
      BY TUIAssumption DEF Init
    <3> QED BY <3>1
  <2> QED BY <2>1, <2>2, <2>3, <2>4 DEF Init, TypeOK
<1>2. SubmittedInv
  BY DEF Init, SubmittedInv, surfaceChoices
<1>3. RunInv /\ NamesInv
  BY DEF Init, RunInv, NamesInv
<1> QED
  BY <1>1, <1>2, <1>3 DEF TUIInv

-----------------------------------------------------------------------------
(* The form: no command runs and no result is shown, so that a page has     *)
(* only what was submitted to keep.                                         *)

\* What a step of the form that starts no run leaves alone.
LEMMA FormStepKeeps ==
  ASSUME TUIInv, mode = "form", UNCHANGED <<mode, runs, rates, result>>
  PROVE  RunInv'
  BY DEF TUIInv, RunInv

LEMMA HighlightKeeps ==
  ASSUME TUIInv, Highlight
  PROVE  TUIInv'
<1>1. PICK i \in 1 .. 3 :
        /\ form' = [form EXCEPT !.surfaceIdx = i]
        /\ chosen' = [chosen EXCEPT !.surface = surfaceChoices[i]]
        /\ theme' = surfaceChoices[i]
  BY DEF Highlight
<1>2. /\ mode = "form" /\ page = "surface"
      /\ UNCHANGED <<mode, page, focus, errMsg, namesLoaded, rates, result, loads, runs>>
  BY DEF Highlight
<1>3. form' \in Forms /\ form'.surfaceIdx = i
  BY <1>1 DEF TUIInv, TypeOK, Forms
<1>4. chosen' \in Inputs /\ theme' \in Surfaces
  BY <1>1, Selectors DEF TUIInv, TypeOK, Inputs
<1>5. TypeOK'
  BY <1>2, <1>3, <1>4 DEF TUIInv, TypeOK
<1>6. SubmittedInv'
  BY <1>1, <1>2, <1>3 DEF SubmittedInv
<1> QED
  BY <1>2, <1>5, <1>6, FormStepKeeps DEF TUIInv, NamesInv

LEMMA SubmitSurfaceKeeps ==
  ASSUME TUIInv, SubmitSurface
  PROVE  TUIInv'
<1>1. /\ mode = "form"
      /\ chosen' = [chosen EXCEPT !.surface = surfaceChoices[form.surfaceIdx]]
      /\ theme' = surfaceChoices[form.surfaceIdx]
      /\ page' = "players" /\ focus' = 0 /\ errMsg' = FALSE
      /\ \/ namesLoaded /\ loads' = loads
         \/ loads < MaxLoads /\ loads' = loads + 1
      /\ UNCHANGED <<mode, form, namesLoaded, rates, result, runs>>
  BY DEF SubmitSurface, GoTo
<1>2. loads \in 0 .. MaxLoads /\ MaxLoads \in Nat
  BY TUIAssumption DEF TUIInv, TypeOK
<1>3. loads' \in 0 .. MaxLoads /\ (namesLoaded \/ loads' > 0)
  BY <1>1, <1>2
<1>4. chosen' \in Inputs /\ theme' \in Surfaces /\ chosen'.surface = theme'
  BY <1>1, FormTypes DEF TUIInv, TypeOK, Inputs
<1>5. TypeOK'
  <2>1. UNCHANGED <<mode, form, namesLoaded, rates, result, runs>>
    BY <1>1
  <2>2. page' = "players" /\ focus' = 0 /\ errMsg' = FALSE
    BY <1>1
  <2>3. /\ page' \in {"surface", "players", "metrics"}
        /\ focus' \in (IF page' = "players" THEN 0 .. 2 ELSE {0})
    <3>1. 0 \in 0 .. 2
      OBVIOUS
    <3> QED BY <2>2, <3>1
  <2>4. errMsg' \in BOOLEAN
    BY <2>2
  <2>5. /\ chosen' \in Inputs /\ theme' \in Surfaces
        /\ loads' \in 0 .. MaxLoads
    BY <1>3, <1>4
  <2> QED BY <2>1, <2>3, <2>4, <2>5 DEF TUIInv, TypeOK
<1>6. SubmittedInv' /\ NamesInv'
  BY <1>1, <1>3, <1>4 DEF SubmittedInv, NamesInv
<1> QED
  BY <1>1, <1>5, <1>6, FormStepKeeps DEF TUIInv

LEMMA SubmitPlayersKeeps ==
  ASSUME TUIInv, SubmitPlayers
  PROVE  TUIInv'
<1>1. /\ mode = "form" /\ page = "players"
      /\ UNCHANGED <<mode, form, theme, namesLoaded, rates, result, loads, runs>>
  BY DEF SubmitPlayers
<1>2. RunInv' /\ NamesInv'
  BY <1>1, FormStepKeeps DEF TUIInv, NamesInv
<1>3. CASE Invalid /\ UNCHANGED chosen
  <2>1. TypeOK' /\ SubmittedInv'
    BY <1>1, <1>3 DEF Invalid, TUIInv, TypeOK, SubmittedInv
  <2> QED BY <1>2, <2>1 DEF TUIInv
<1>4. CASE /\ form.a # "" /\ form.b # ""
           /\ chosen' = [chosen EXCEPT !.a = form.a, !.b = form.b,
                                       !.format = formatChoices[form.formatIdx]]
           /\ GoTo("metrics")
  <2>1. /\ chosen' \in Inputs
        /\ chosen'.a = form.a /\ chosen'.b = form.b
        /\ chosen'.format = formatChoices[form.formatIdx]
        /\ chosen'.surface = chosen.surface
    BY <1>4, FormTypes DEF TUIInv, TypeOK, Inputs
  <2>2. TypeOK'
    BY <1>1, <1>4, <2>1 DEF GoTo, TUIInv, TypeOK
  <2>3. SubmittedInv'
    BY <1>1, <1>4, <2>1 DEF GoTo, TUIInv, SubmittedInv
  <2> QED BY <1>2, <2>2, <2>3 DEF TUIInv
<1> QED
  BY <1>3, <1>4 DEF SubmitPlayers

\* startSim begins the run of the form as it stands.
LEMMA SubmitMetricsKeeps ==
  ASSUME TUIInv, SubmitMetrics
  PROVE  TUIInv'
<1>1. /\ mode = "form" /\ page = "metrics"
      /\ UNCHANGED <<form, theme, namesLoaded, rates, result, loads>>
      /\ UNCHANGED <<page, focus>>
  BY DEF SubmitMetrics, Invalid
<1>2. CASE Invalid /\ UNCHANGED <<mode, chosen, runs>>
  <2>1. TypeOK' /\ SubmittedInv' /\ NamesInv'
    BY <1>1, <1>2 DEF Invalid, TUIInv, TypeOK, SubmittedInv, NamesInv
  <2> QED BY <1>1, <1>2, <2>1, FormStepKeeps DEF TUIInv
<1>3. CASE /\ form.sims # 0
           /\ StartSim([chosen EXCEPT !.sims = form.sims])
           /\ UNCHANGED <<page, focus, errMsg>>
  <2> DEFINE c == [chosen EXCEPT !.sims = form.sims]
  <2>1. /\ c \in Inputs
        /\ c.a = form.a /\ c.b = form.b /\ c.sims = form.sims
        /\ c.format = formatChoices[form.formatIdx]
        /\ c.surface = surfaceChoices[form.surfaceIdx]
    BY <1>1, FormTypes, InputsTypes DEF TUIInv, SubmittedInv, Inputs
  <2>2. /\ mode' = "loading"
        /\ chosen' = [c EXCEPT !.alpha = c.surface]
        /\ runs' = runs \cup {[cmd |-> "fetch", of |-> [a |-> c.a, b |-> c.b, surface |-> c.surface]]}
    BY <1>3 DEF StartSim
  <2> HIDE DEF c
  <2>3. /\ chosen' \in Inputs
        /\ chosen'.a = form.a /\ chosen'.b = form.b /\ chosen'.sims = form.sims
        /\ chosen'.format = formatChoices[form.formatIdx]
        /\ chosen'.surface = surfaceChoices[form.surfaceIdx]
        /\ chosen'.alpha = surfaceChoices[form.surfaceIdx]
    BY <2>1, <2>2, FormTypes DEF TUIInv, Inputs
  <2>4. FormInputs' = FormInputs /\ RatesOfForm' = RatesOfForm /\ FetchOfForm' = FetchOfForm
    BY <1>1 DEF FormInputs, RatesOfForm, FetchOfForm
  <2>5. chosen' = FormInputs
    <3>1. FormInputs \in Inputs
      BY <1>1, FormTypes DEF TUIInv, SubmittedInv, FormInputs, Inputs
    <3> QED BY <2>3, <3>1, InputsEqual DEF FormInputs
  <2>6. FetchOfForm \in Fetches
    BY <1>1, FormTypes DEF TUIInv, SubmittedInv, FetchOfForm, RatesOfForm, FormInputs, Fetches, Rates
  <2>7. runs' = {FetchOfForm}
    BY <1>1, <2>1, <2>2 DEF TUIInv, RunInv, FetchOfForm, RatesOfForm, FormInputs
  <2>8. TypeOK'
    BY <1>1, <1>3, <2>2, <2>3, <2>6, <2>7 DEF TUIInv, TypeOK
  <2>9. SubmittedInv' /\ NamesInv'
    BY <1>1, <2>2, <2>3 DEF TUIInv, SubmittedInv, NamesInv
  <2>10. RunInv'
    BY <1>1, <2>2, <2>4, <2>5, <2>7 DEF RunInv
  <2> QED BY <2>8, <2>9, <2>10 DEF TUIInv
<1> QED
  BY <1>2, <1>3 DEF SubmitMetrics

\* Moving between pages and fields submits nothing.
LEMMA MovesKeep ==
  ASSUME TUIInv, PrevPage \/ MoveFocus
  PROVE  TUIInv'
<1>1. /\ mode = "form"
      /\ UNCHANGED <<mode, form, chosen, theme, namesLoaded, rates, result, loads, runs>>
      /\ errMsg' = FALSE
      /\ page # "surface"
      /\ page' = page \/ page' = "surface" \/ page' = "players"
  BY DEF PrevPage, MoveFocus, GoTo
<1>2. focus' \in (IF page' = "players" THEN 0 .. 2 ELSE {0})
  <2>1. CASE PrevPage
    BY <2>1 DEF PrevPage, GoTo
  <2>2. CASE MoveFocus
    <3>1. PICK step \in {1, FocusCount - 1} : focus' = (focus + step) % FocusCount
      BY <2>2 DEF MoveFocus
    <3>2. focus \in (IF page = "players" THEN 0 .. 2 ELSE {0}) /\ page' = page
      BY <2>2 DEF MoveFocus, TUIInv, TypeOK
    <3> QED BY <3>1, <3>2 DEF FocusCount
  <2> QED BY <2>1, <2>2
<1>3. TypeOK'
  BY <1>1, <1>2 DEF TUIInv, TypeOK
<1>4. SubmittedInv' /\ NamesInv'
  BY <1>1 DEF TUIInv, SubmittedInv, NamesInv, TypeOK
<1> QED
  BY <1>1, <1>3, <1>4, FormStepKeeps DEF TUIInv

\* Editing changes fields of a page that is yet to be submitted.
LEMMA EditsKeep ==
  ASSUME TUIInv, ChangeSelector \/ ForwardToFocused
  PROVE  TUIInv'
<1>1. /\ mode = "form"
      /\ UNCHANGED <<mode, page, focus, chosen, theme, errMsg, namesLoaded, rates,
                     result, loads, runs>>
  BY DEF ChangeSelector, ForwardToFocused
<1>2. /\ form' \in Forms
      /\ form'.surfaceIdx = form.surfaceIdx
      /\ page = "metrics" => /\ form'.a = form.a /\ form'.b = form.b
                             /\ form'.formatIdx = form.formatIdx
  <2>1. CASE ChangeSelector
    <3>1. form.formatIdx \in 1 .. 2
      BY FormTypes DEF TUIInv
    <3>2. 3 - form.formatIdx \in 1 .. 2
      BY <3>1
    <3> QED BY <2>1, <3>2 DEF ChangeSelector, TUIInv, TypeOK, Forms
  <2>2. CASE ForwardToFocused
    BY <2>2 DEF ForwardToFocused, TUIInv, TypeOK, Forms
  <2> QED BY <2>1, <2>2
<1>3. TypeOK'
  BY <1>1, <1>2 DEF TUIInv, TypeOK
<1>4. SubmittedInv' /\ NamesInv'
  BY <1>1, <1>2 DEF TUIInv, SubmittedInv, NamesInv
<1> QED
  BY <1>1, <1>3, <1>4, FormStepKeeps DEF TUIInv

-----------------------------------------------------------------------------
(* The messages.                                                            *)

LEMMA NamesArriveKeeps ==
  ASSUME TUIInv, NamesArrive
  PROVE  TUIInv'
<1>1. /\ loads > 0 /\ loads' = loads - 1
      /\ namesLoaded' = (namesLoaded \/ mode = "form")
      /\ UNCHANGED <<mode, page, focus, form, chosen, theme, errMsg, rates, result, runs>>
  BY DEF NamesArrive, formVars
<1>2. loads' \in 0 .. MaxLoads
  <2>1. loads \in 0 .. MaxLoads /\ MaxLoads \in Nat
    BY TUIAssumption DEF TUIInv, TypeOK
  <2> QED BY <1>1, <2>1
<1>3. namesLoaded' \in BOOLEAN
  BY <1>1
<1>4. TypeOK'
  BY <1>1, <1>2, <1>3 DEF TUIInv, TypeOK
<1>5. SubmittedInv'
  BY <1>1 DEF TUIInv, SubmittedInv
<1>6. RunInv'
  BY <1>1 DEF TUIInv, RunInv, SimOfForm, FetchOfForm, RatesOfForm, FormInputs
<1>7. NamesInv'
  BY <1>1 DEF NamesInv
<1> QED
  BY <1>4, <1>5, <1>6, <1>7 DEF TUIInv

\* A message of a command in the mode that waits for it, which is the one
\* command of the form; in no other mode does a command run, but behind "quit".
LEMMA RunStepsKeep ==
  ASSUME TUIInv, NEW c \in runs, RatesArrive(c) \/ ResultArrives(c) \/ RunFails(c)
  PROVE  TUIInv'
<1>1. /\ mode # "quit"
      /\ UNCHANGED <<page, focus, form, chosen, theme, errMsg, namesLoaded, loads>>
  BY DEF RatesArrive, ResultArrives, RunFails, formVars
<1>2. mode = "loading" /\ (runs = {FetchOfForm} \/ runs = {SimOfForm})
  BY <1>1 DEF TUIInv, TypeOK, RunInv
<1>3. /\ page = "metrics" /\ chosen = FormInputs
      /\ FormInputs' = FormInputs /\ FetchOfForm' = FetchOfForm /\ SimOfForm' = SimOfForm
  BY <1>1, <1>2 DEF TUIInv, RunInv, FormInputs, FetchOfForm, SimOfForm, RatesOfForm
<1>4. SubmittedInv'
  BY <1>1 DEF TUIInv, SubmittedInv
<1>5. FetchOfForm.cmd = "fetch" /\ SimOfForm.cmd = "sim" /\ FetchOfForm.of = RatesOfForm
      /\ RatesOfForm \in Rates /\ SimOfForm.of \in Projections /\ SimOfForm \in Sims
  <2>1. RatesOfForm \in Rates
    BY <1>3, FormTypes DEF TUIInv, SubmittedInv, RatesOfForm, FormInputs, Rates
  <2>2. FormInputs \in Inputs
    BY <1>3 DEF TUIInv, TypeOK
  <2>3. SimOfForm.of \in Projections
    BY <2>1, <2>2 DEF SimOfForm, Projections
  <2>4. SimOfForm \in Sims
    BY <2>1, <2>2 DEF SimOfForm, Projections, Sims
  <2> QED BY <2>1, <2>3, <2>4 DEF FetchOfForm, SimOfForm
<1>6. CASE RatesArrive(c)
  <2>1. /\ runs = {FetchOfForm} /\ c = FetchOfForm
        /\ rates' = RatesOfForm /\ result' = result /\ mode' = mode
    BY <1>2, <1>5, <1>6 DEF RatesArrive
  <2>2. runs' = {SimOfForm}
    BY <1>2, <1>3, <1>6, <2>1, <1>5 DEF RatesArrive, SimOfForm
  <2>3. TypeOK'
    BY <1>1, <1>5, <2>1, <2>2 DEF TUIInv, TypeOK
  <2>4. RunInv' /\ NamesInv'
    BY <1>1, <1>2, <1>3, <2>1, <2>2 DEF RunInv, NamesInv
  <2> QED BY <1>4, <2>3, <2>4 DEF TUIInv
<1>7. CASE ResultArrives(c)
  <2>1. /\ runs = {SimOfForm} /\ c = SimOfForm
        /\ mode' = "results" /\ result' = SimOfForm.of /\ rates' = rates
        /\ runs' = {}
    BY <1>2, <1>5, <1>7 DEF ResultArrives
  <2>2. TypeOK'
    BY <1>1, <1>5, <2>1 DEF TUIInv, TypeOK
  <2>3. RunInv' /\ NamesInv'
    BY <1>1, <1>3, <2>1 DEF RunInv, NamesInv
  <2> QED BY <1>4, <2>2, <2>3 DEF TUIInv
<1>8. CASE RunFails(c)
  <2>1. mode' = "error" /\ runs' = {} /\ UNCHANGED <<rates, result>>
    BY <1>2, <1>8 DEF RunFails
  <2>2. TypeOK'
    BY <1>1, <2>1 DEF TUIInv, TypeOK
  <2>3. RunInv' /\ NamesInv'
    BY <1>1, <1>3, <2>1 DEF RunInv, NamesInv
  <2> QED BY <1>4, <2>2, <2>3 DEF TUIInv
<1> QED
  BY <1>6, <1>7, <1>8

LEMMA EndsKeep ==
  ASSUME TUIInv, Restart \/ Quit
  PROVE  TUIInv'
<1>1. CASE Restart
  <2>1. /\ mode' = "form" /\ page' = "surface" /\ focus' = 0 /\ errMsg' = FALSE
        /\ mode \in {"results", "error"}
        /\ result' = NoResult
        /\ UNCHANGED <<form, chosen, theme, namesLoaded, rates, loads, runs>>
    BY <1>1 DEF Restart, GoTo
  <2>2. TypeOK'
    BY <2>1 DEF TUIInv, TypeOK
  <2>3. SubmittedInv' /\ RunInv' /\ NamesInv'
    BY <2>1 DEF TUIInv, SubmittedInv, RunInv, NamesInv
  <2> QED BY <2>2, <2>3 DEF TUIInv
<1>2. CASE Quit
  <2>1. /\ mode' = "quit"
        /\ UNCHANGED <<page, focus, form, chosen, theme, errMsg, namesLoaded, rates,
                       result, loads, runs>>
    BY <1>2 DEF Quit, formVars
  <2>2. TypeOK'
    BY <2>1 DEF TUIInv, TypeOK
  <2>3. SubmittedInv' /\ RunInv' /\ NamesInv'
    BY <2>1 DEF TUIInv, SubmittedInv, RunInv, NamesInv
  <2> QED BY <2>2, <2>3 DEF TUIInv
<1> QED
  BY <1>1, <1>2

LEMMA StepInv == TUIInv /\ [Next]_vars => TUIInv'
<1> SUFFICES ASSUME TUIInv, [Next]_vars PROVE TUIInv'
  OBVIOUS
<1>1. CASE Highlight \/ SubmitSurface \/ SubmitPlayers \/ SubmitMetrics
  BY <1>1, HighlightKeeps, SubmitSurfaceKeeps, SubmitPlayersKeeps, SubmitMetricsKeeps
<1>2. CASE PrevPage \/ MoveFocus \/ ChangeSelector \/ ForwardToFocused
  BY <1>2, MovesKeep, EditsKeep
<1>3. CASE NamesArrive
  BY <1>3, NamesArriveKeeps
<1>4. CASE \E c \in runs : RatesArrive(c) \/ ResultArrives(c) \/ RunFails(c)
  BY <1>4, RunStepsKeep
<1>5. CASE Restart \/ Quit
  BY <1>5, EndsKeep
<1>6. CASE Over \/ UNCHANGED vars
  <2>1. UNCHANGED vars
    BY <1>6 DEF Over
  <2>2. TypeOK' /\ SubmittedInv' /\ NamesInv'
    BY <2>1 DEF TUIInv, TypeOK, SubmittedInv, NamesInv, vars
  <2>3. RunInv'
    BY <2>1 DEF TUIInv, RunInv, vars, SimOfForm, FetchOfForm, RatesOfForm, FormInputs
  <2> QED BY <2>2, <2>3 DEF TUIInv
<1> QED
  BY <1>1, <1>2, <1>3, <1>4, <1>5, <1>6 DEF Next

-----------------------------------------------------------------------------
(* The theorems.                                                            *)

\* The inductive invariant holds of every session of the front-end.
THEOREM TUIInvariant == Spec => []TUIInv
  BY InitInv, StepInv, PTL DEF Spec

\* The variables keep their types; the focus stays within the fields of its page.
THEOREM TUITypeCorrect == Spec => []TypeOK
<1>1. TUIInv => TypeOK
  BY DEF TUIInv
<1> QED
  BY <1>1, TUIInvariant, PTL

\* A result on the screen is that of the form as it stands, with the rates of
\* its players on its surface, for any players and counts.
THEOREM ResultsAreOfTheForm == Spec => []ResultIsOfTheForm
<1>1. TUIInv => ResultIsOfTheForm
  <2> SUFFICES ASSUME TUIInv PROVE ResultIsOfTheForm
    OBVIOUS
  <2>1. theme = surfaceChoices[form.surfaceIdx]
    BY DEF TUIInv, SubmittedInv
  <2>2. mode = "results" => result = [inputs |-> FormInputs, rates |-> RatesOfForm]
    BY DEF TUIInv, RunInv, SimOfForm
  <2> QED BY <2>1, <2>2 DEF ResultIsOfTheForm, RatesOfForm
<1> QED
  BY <1>1, TUIInvariant, PTL

\* A loading program waits for exactly one command and no other mode has one:
\* no late message of an earlier run is ever taken for the present one.
THEOREM OneCommandAtATime == Spec => []OneRunAtATime
<1>1. TUIInv => OneRunAtATime
  <2> SUFFICES ASSUME TUIInv PROVE OneRunAtATime
    OBVIOUS
  <2>1. ASSUME mode = "loading" PROVE \E c \in Fetches \cup Sims : runs = {c}
    <3>1. PICK c : runs = {c}
      BY <2>1 DEF TUIInv, RunInv
    <3> QED BY <3>1 DEF TUIInv, TypeOK
  <2> QED BY <2>1 DEF TUIInv, RunInv, NamesInv, OneRunAtATime
<1> QED
  BY <1>1, TUIInvariant, PTL
=============================================================================
