-------------------------- MODULE MCCoinActivation --------------------------
(***************************************************************************)
(* Instances of CoinActivation.  Two standalone tasks and a legacy call    *)
(* activate coin 1; two tasks and a one-shot call meet there as well.  A   *)
(* platform task and a one-shot platform call bring the tokens 2 and 3 of  *)
(* platform 4, and a task activates token 2 by itself.                     *)
(***************************************************************************)
EXTENDS CoinActivation, TLC

CONSTANTS coin1, coin2, legacy, platform, oneshot, token

MCActivations == {coin1, coin2, legacy, platform, oneshot, token}
MCTasks == {coin1, coin2, platform, token}

MCKind == (coin1 :> "coin") @@ (coin2 :> "coin") @@ (legacy :> "legacy")
          @@ (platform :> "platform") @@ (oneshot :> "oneshot") @@ (token :> "token")
MCMain == (coin1 :> 1) @@ (coin2 :> 1) @@ (legacy :> 1)
          @@ (platform :> 4) @@ (oneshot :> 4) @@ (token :> 2)
MCTokens == [a \in MCActivations |-> IF a \in {platform, oneshot} THEN {2, 3} ELSE {}]
MCNeeds == [a \in MCActivations |-> IF a = token THEN {4} ELSE {}]

MCScenarios == {{coin1, coin2, legacy}, {platform, oneshot, token}}
PlatformAlone == {{platform}}
=============================================================================
