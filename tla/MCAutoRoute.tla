---------------------------- MODULE MCAutoRoute ----------------------------
(* Model-checking instance of AutoRoute, on Linux and on Android in one     *)
(* run: android says which of the two this behaviour is on.                 *)
EXTENDS AutoRoute

VARIABLE android

routeVars == <<vars, android>>

OnAndroid == INSTANCE AutoRoute WITH Android <- TRUE

RouteInit == Init /\ android \in BOOLEAN

RouteNext ==
  \/ ~android /\ Next /\ UNCHANGED android
  \/ android /\ OnAndroid!Next /\ UNCHANGED android

\* What FairSpec is fair to, on both.
FairStep(k) ==
  /\ UNCHANGED android
  /\ \/ ~android /\ \/ k = 1 /\ ConfigureStep
                    \/ k = 2 /\ RefreshStep
                    \/ k = 3 /\ CloseStep
                    \/ k = 4 /\ TickerFires
     \/ android /\ \/ k = 1 /\ OnAndroid!ConfigureStep
                   \/ k = 2 /\ OnAndroid!RefreshStep
                   \/ k = 3 /\ OnAndroid!CloseStep
                   \/ k = 4 /\ OnAndroid!TickerFires

RouteSpec ==
  /\ RouteInit /\ [][RouteNext]_routeVars
  /\ \A k \in 1 .. 4 : WF_routeVars(FairStep(k))
  /\ SF_routeVars(TickerStops /\ UNCHANGED android)
=============================================================================
