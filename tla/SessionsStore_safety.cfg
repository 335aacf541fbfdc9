CONSTANTS
  w1 = w1
  w2 = w2
  Workers = {w1, w2}
  Tokens = {t1, t2}
  Streams = {s1}
  Home <- OneHome
  MaxMishaps = 1
  NoToken = NoToken
  NoStream = NoStream
SPECIFICATION Spec
SYMMETRY Symmetry
CONSTRAINT FewAfterMishap
INVARIANTS
  StaleIsUnseen
  LiveIsFound
  CountedIsReflected
  CutOffComing
