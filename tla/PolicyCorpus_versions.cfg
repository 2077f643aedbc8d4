\* Two sources with two versions, one of each sharing an identifier, a global
\* document, two texts.
SPECIFICATION Spec
CONSTANTS
  o1 = o1
  p = p
  w1 = w1
  w2 = w2
  reworded = reworded
  longer = longer
  a1 = a1
  seed = seed
  k1 = k1
  None = None
  Global = Global
  Organizations = {o1}
  Sources <- MCSources
  Versions <- MCVersions
  Uploads <- MCUploads
  Contents = {reworded, longer}
  Scores <- MCScores
  Authors <- MCOneAuthor
  Keys = {k1}
  Asker <- MCOneAsker
  TopK = 3
INVARIANT TypeOK
INVARIANT ChunksMatchDocument
INVARIANT CitationsPinText
