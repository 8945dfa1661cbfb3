------------------------------ MODULE WatcherMC ------------------------------
EXTENDS Watcher, TLC
CONSTANTS file1, file2
=============================================================================
