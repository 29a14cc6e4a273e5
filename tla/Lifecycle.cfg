\* One or two loops, upgrades between every two lists of subscribers, stops
\* at any time, rollbacks of up to two blocks, and any call rejected.
SPECIFICATION FairSpec
CONSTANTS
  alice = alice  bob = bob  mute = mute
  Subscriber = {alice, bob, mute}
  Silent = {mute}
  Lists <- MCLists
  Url = {"url", "url2"}
  Loops = {1, 2}
  FirstHeight = 2
  LastHeight = 4
  MaxBack = 2
\* A canister that is asked to stop while a subscriber never answers is stuck.
CHECK_DEADLOCK FALSE
INVARIANTS
  LoopsUseConfig
  NoneMissed
PROPERTIES
  HeardWithoutGap
  StopCompletes
  LoopGoesOn
