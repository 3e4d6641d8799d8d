-------------------------- MODULE MCSystemSettings --------------------------
\* The settings of one page alone: the constants are in SystemSettings_draft.cfg.
EXTENDS SystemSettings
=============================================================================
