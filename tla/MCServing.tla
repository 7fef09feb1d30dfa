-------------------------------- MODULE MCServing --------------------------------
EXTENDS Serving

\* The owner of the custom routines and someone else; two updates handled at once.
TwoAccounts == {"owner", "other"}
TwoHandlers == {"h1", "h2"}
TwoTargets == {"c", "d"}
=================================================================================
