SPECIFICATION Spec
CONSTANT Words <- MCWords
INVARIANT NamesWhatItReads
