SPECIFICATION BrowserSpec
CONSTANTS
  None = None
  Tabs = {t1}
  Offers = {q1, q2, q3}
SYMMETRY MCSymmetry
INVARIANTS ResumeWorks
