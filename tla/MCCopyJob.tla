------------------------------ MODULE MCCopyJob -------------------------------
\* CopyJob on the small files of MCFiles.
EXTENDS CopyJob, MCFiles
===============================================================================
