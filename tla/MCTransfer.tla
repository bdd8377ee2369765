------------------------------ MODULE MCTransfer ------------------------------
\* Transfer on the small files of MCFiles.
EXTENDS Transfer, MCFiles
===============================================================================
