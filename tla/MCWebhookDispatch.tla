---------------------------- MODULE MCWebhookDispatch ----------------------------
EXTENDS WebhookDispatch, TLC

CONSTANTS c1, c2, h1, h2

HandlerSymmetry == Permutations({c1, c2}) \cup Permutations({h1, h2})
===============================================================================
