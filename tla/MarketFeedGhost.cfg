\* One trader, two tokens: the resubscription races an Unsubscribe.
CONSTANTS
  Tokens = {t1, t2}
  Traders = {r1}
  MaxConns = 2
  ChanCap = 1
  BaseDelay = 1
  MaxDelay = 3
SPECIFICATION Spec
INVARIANTS
  NoListenersUnsubscribed
