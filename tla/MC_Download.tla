---------------------------- MODULE MC_Download -----------------------------
EXTENDS Download

Old == <<10, 11>>
New == <<20, 21, 22>>
App == <<30, 31>>
=============================================================================
