--------------------------- MODULE MCHookPipeline ---------------------------
EXTENDS HookPipeline

CONSTANTS t1, t2

MCThreads == {t1, t2}
=============================================================================
