--------------------------- MODULE MCCorpusLeases ---------------------------
EXTENDS CorpusLeases, TLC

\* Backups are interchangeable, and so are processes of the same release.
BackupSymmetry ==
    Permutations(Backups) \cup
    {f \in Permutations(Processes) : \A p \in Processes :
        p \in OldBinaries <=> f[p] \in OldBinaries}
=============================================================================
