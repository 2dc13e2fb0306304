CONSTANTS
    Engines = {e1, e2}
    Writers = {w1}
    Own = {ime, english}
    Other = {old, new}
    Nobody = Nobody
SPECIFICATION Spec
SYMMETRY Symmetry
PROPERTIES EngineKeepsForeignEdits
