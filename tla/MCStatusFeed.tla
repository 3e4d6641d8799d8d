---------------------------- MODULE MCStatusFeed ----------------------------
\* The feed on the three pages: the constants are in StatusFeed.cfg.
EXTENDS FeedPages
=============================================================================
