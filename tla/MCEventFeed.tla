----------------------------- MODULE MCEventFeed -----------------------------
EXTENDS EventFeed
=============================================================================
